---- MODULE Spec2Model ----
(***************************************************************************)
(* NAHS Caseload Counts: the permissioned data-access layer.               *)
(*                                                                         *)
(* State: the shared script cache (CacheService.getScriptCache()) and the  *)
(* response in flight to a caller.  Every request handler runs to          *)
(* completion in one action; the caller then takes the response.  Strings  *)
(* are tuples of one-character strings,                                    *)
(* so that endsWith, the address pattern and the cache keys are computed   *)
(* character by character.                                                 *)
(***************************************************************************)
EXTENDS Integers, Sequences, FiniteSets, TLC

VARIABLES cache, resp

vars == <<cache, resp>>

(***************************************************************************)
(* Bounds of the model.                                                    *)
(***************************************************************************)
\* seconds of wall-clock time that pass in one Tick
TickSeconds == 150
\* longest generated prefix of a validateUserEmail input
MaxLocalLen == 3

(***************************************************************************)
(* Config.js                                                               *)
(***************************************************************************)
ALLOWED_DOMAIN == <<"@","n","i","s","d",".","n","e","t">>
FULL_ACCESS_CAMPUS_COUNT == 17
USER_PERMISSIONS_DURATION == 5 * 60
DATA_CACHE_DURATION == 2 * 60
PREFIX == <<"n","a","h","s","_","c","a","s","e","l","o","a","d","_">>
CAMPUS_COLUMN == "HOME CAMPUS"
DATE_COLUMNS == <<"ENTRY DATE", "ESCHOOL ", "LAST ARD", "DATA SHARED", "IEP SHARED">>
COLUMNS_TO_REMOVE == <<7, 8, 9, 12, 13, 14>>

INVALID_EMAIL == "Invalid email format provided"
PERMISSION_ERROR == "Error checking user permissions"
NO_CAMPUS_COLUMN == "No HOME CAMPUS column found in the sheet"
DATA_LOAD_ERROR == "Error loading data from spreadsheet"
CACHE_ERROR == "Error accessing cache service"

LINDA == <<"l","i","n","d","a",".","r","o","d","r","i","g","u","e","z","@","n","i","s","d",".","n","e","t">>
ALVARO == <<"a","l","v","a","r","o",".","g","o","m","e","z","@","n","i","s","d",".","n","e","t">>
DESIREE == <<"d","e","s","i","r","e","e",".","s","t","j","e","a","n","@","n","i","s","d",".","n","e","t">>
EVA == <<"e","v","a",".","l","o","n","g","o","r","i","a","@","n","i","s","d",".","n","e","t">>

AllCampuses ==
    <<"Brandeis", "Brennan", "Clark", "Harlan", "Holmgreen",
      "Health Careers", "Excel", "Holmes", "Jay", "Marshall",
      "O'Connor", "NAHS", "Sotomayor", "Stevens", "Taft",
      "Warren", "Reddix">>

\* CONFIG.LEGACY_EMAIL_CAMPUS_MAPPING, the entries of the identities the model uses
LEGACY_EMAIL_CAMPUS_MAPPING ==
    [e \in {ALVARO, DESIREE, EVA, LINDA} |->
        CASE e = ALVARO  -> <<"Brandeis", "Brennan", "Clark", "Harlan">>
          [] e = DESIREE -> <<"Brandeis">>
          [] e = EVA     -> <<"Health Careers", "Excel", "Holmgreen">>
          [] e = LINDA   -> AllCampuses]

(***************************************************************************)
(* JavaScript values that reach the services as an "email" argument.       *)
(***************************************************************************)
JsNull == [t |-> "null", s |-> <<>>]
JsNumber == [t |-> "number", s |-> <<>>]
JsString(s) == [t |-> "string", s |-> s]

\* !email
Falsy(v) == v.t = "null" \/ (v.t = "string" /\ v.s = <<>>)

\* String.prototype.endsWith
EndsWith(s, suffix) ==
    /\ Len(s) >= Len(suffix)
    /\ SubSeq(s, Len(s) - Len(suffix) + 1, Len(s)) = suffix

\* the class \s of the pattern, on the characters the model generates
Whitespace == {" ", "\t", "\n"}

\* [^\s@]
NotSpaceNotAt(c) == c \notin Whitespace /\ c # "@"

(***************************************************************************)
(* emailRegex = /^[^\s@]+@[^\s@]+\.[^\s@]+$/ as an automaton: position 0   *)
(* before the first character, 1 inside the first [^\s@]+, 2 after "@",    *)
(* 3 inside the second [^\s@]+, 4 after "\.", 5 inside the third [^\s@]+   *)
(* (accepting).  A "." inside the second group may also be the "\.".       *)
(***************************************************************************)
RegexMove(q, c) ==
    CASE q = 0 -> IF NotSpaceNotAt(c) THEN {1} ELSE {}
      [] q = 1 -> IF c = "@" THEN {2} ELSE IF NotSpaceNotAt(c) THEN {1} ELSE {}
      [] q = 2 -> IF NotSpaceNotAt(c) THEN {3} ELSE {}
      [] q = 3 -> IF c = "." THEN {3, 4} ELSE IF NotSpaceNotAt(c) THEN {3} ELSE {}
      [] q = 4 -> IF NotSpaceNotAt(c) THEN {5} ELSE {}
      [] q = 5 -> IF NotSpaceNotAt(c) THEN {5} ELSE {}

RECURSIVE RegexRun(_, _, _)
RegexRun(qs, s, i) ==
    IF i > Len(s) THEN qs
    ELSE RegexRun(UNION {RegexMove(q, s[i]) : q \in qs}, s, i + 1)

\* emailRegex.test(email)
EmailRegexTest(s) == 5 \in RegexRun({0}, s, 1)

\* the domain check of validateUserEmail, dropped
validateUserEmail_NoDomainCheck(email) ==
    IF Falsy(email) \/ email.t # "string" THEN FALSE
    ELSE EmailRegexTest(email.s)

\* UserService.validateUserEmail
validateUserEmail(email) ==
    IF Falsy(email) \/ email.t # "string" THEN FALSE
    ELSE IF ~EndsWith(email.s, ALLOWED_DOMAIN) THEN FALSE
    ELSE IF ~EmailRegexTest(email.s) THEN FALSE
    ELSE TRUE

(***************************************************************************)
(* Cache Layer: CacheService.getScriptCache().  An entry is the stored     *)
(* string and the seconds it has left; an absent key is not in the domain. *)
(* A call named in `faults` throws instead of acting.                      *)
(***************************************************************************)
CacheFaults == {"perm.get", "perm.put", "perm.remove", "data.get", "data.put", "data.remove"}

\* cache.get(key): <<>> is null, <<v>> the stored string
CacheGet(c, key) == IF key \in DOMAIN c THEN <<c[key].value>> ELSE <<>>

\* cache.put(key, value, expirationInSeconds)
CachePut(c, key, value, ttl) ==
    [k \in DOMAIN c \cup {key} |->
        IF k = key THEN [value |-> value, left |-> ttl] ELSE c[k]]

\* cache.remove(key)
CacheRemove(c, key) == [k \in DOMAIN c \ {key} |-> c[k]]

\* the cache after `seconds` have passed: expired keys behave as absent
CacheAfter(c, seconds) ==
    [k \in {x \in DOMAIN c : c[x].left > seconds} |->
        [value |-> c[k].value, left |-> c[k].left - seconds]]

\* JSON.stringify / JSON.parse of a value whose fields all survive JSON
JSONStringify(v) == [json |-> v]
JSONParse(str) == str.json

(***************************************************************************)
(* Errors and outcomes.  An outcome is what a call did: it returned or     *)
(* threw `value`, left the cache as `cache`, and made the calls `steps`.   *)
(***************************************************************************)
\* new Error(message)
Error(message) == [message |-> message, originalError |-> "(none)", context |-> "(none)"]

\* AppLogger.createError: the object that `throw createError(...)` throws
createError(message, originalError, context) ==
    [message |-> message, originalError |-> originalError.message, context |-> context]

CacheServiceError == Error("CacheService call failed")

Returned(value, c, steps) == [kind |-> "return", value |-> value, cache |-> c, steps |-> steps]
Thrown(error, c, steps) == [kind |-> "throw", value |-> error, cache |-> c, steps |-> steps]

(***************************************************************************)
(* UserService                                                             *)
(***************************************************************************)
\* the permissions key without the identity in it
PermissionsKey_Shared(email) == PREFIX \o <<"p","e","r","m","i","s","s","i","o","n","s","_">>

\* `${CONFIG.CACHE.PREFIX}permissions_${email}`
PermissionsKey(email) == PREFIX \o <<"p","e","r","m","i","s","s","i","o","n","s","_">> \o email

\* the full-access test with > in place of >=
loadUserPermissionsFromConfig_StrictThreshold(email) ==
    IF email \notin DOMAIN LEGACY_EMAIL_CAMPUS_MAPPING
    THEN [email |-> email, campuses |-> <<>>, hasAccess |-> FALSE,
          isFullAccess |-> FALSE, role |-> "none"]
    ELSE LET campusList == LEGACY_EMAIL_CAMPUS_MAPPING[email]
             isFullAccess == Len(campusList) > FULL_ACCESS_CAMPUS_COUNT
         IN [email |-> email, campuses |-> campusList, hasAccess |-> TRUE,
             isFullAccess |-> isFullAccess,
             role |-> IF isFullAccess THEN "administrator" ELSE "coordinator"]

\* every mapped identity treated as full access
loadUserPermissionsFromConfig_AllFull(email) ==
    IF email \notin DOMAIN LEGACY_EMAIL_CAMPUS_MAPPING
    THEN [email |-> email, campuses |-> <<>>, hasAccess |-> FALSE,
          isFullAccess |-> FALSE, role |-> "none"]
    ELSE [email |-> email, campuses |-> LEGACY_EMAIL_CAMPUS_MAPPING[email],
          hasAccess |-> TRUE, isFullAccess |-> TRUE, role |-> "administrator"]

\* an unmapped identity given access
loadUserPermissionsFromConfig_DefaultAccess(email) ==
    IF email \notin DOMAIN LEGACY_EMAIL_CAMPUS_MAPPING
    THEN [email |-> email, campuses |-> <<>>, hasAccess |-> TRUE,
          isFullAccess |-> FALSE, role |-> "none"]
    ELSE LET campusList == LEGACY_EMAIL_CAMPUS_MAPPING[email]
             isFullAccess == Len(campusList) >= FULL_ACCESS_CAMPUS_COUNT
         IN [email |-> email, campuses |-> campusList, hasAccess |-> TRUE,
             isFullAccess |-> isFullAccess,
             role |-> IF isFullAccess THEN "administrator" ELSE "coordinator"]

\* the resolver keeping only the first campus of the table's list
loadUserPermissionsFromConfig_FirstCampus(email) ==
    IF email \notin DOMAIN LEGACY_EMAIL_CAMPUS_MAPPING
    THEN [email |-> email, campuses |-> <<>>, hasAccess |-> FALSE,
          isFullAccess |-> FALSE, role |-> "none"]
    ELSE LET campusList == LEGACY_EMAIL_CAMPUS_MAPPING[email]
             isFullAccess == Len(campusList) >= FULL_ACCESS_CAMPUS_COUNT
         IN [email |-> email, campuses |-> SubSeq(campusList, 1, 1), hasAccess |-> TRUE,
             isFullAccess |-> isFullAccess,
             role |-> IF isFullAccess THEN "administrator" ELSE "coordinator"]

\* the threshold test left out: no identity has full access
loadUserPermissionsFromConfig_NeverFull(email) ==
    IF email \notin DOMAIN LEGACY_EMAIL_CAMPUS_MAPPING
    THEN [email |-> email, campuses |-> <<>>, hasAccess |-> FALSE,
          isFullAccess |-> FALSE, role |-> "none"]
    ELSE [email |-> email, campuses |-> LEGACY_EMAIL_CAMPUS_MAPPING[email],
          hasAccess |-> TRUE, isFullAccess |-> FALSE, role |-> "coordinator"]

\* UserService.loadUserPermissionsFromConfig (lastUpdated, a timestamp no
\* code reads, is left out of the record)
loadUserPermissionsFromConfig(email) ==
    IF email \notin DOMAIN LEGACY_EMAIL_CAMPUS_MAPPING
    THEN [email |-> email, campuses |-> <<>>, hasAccess |-> FALSE,
          isFullAccess |-> FALSE, role |-> "none"]
    ELSE LET campusList == LEGACY_EMAIL_CAMPUS_MAPPING[email]
             isFullAccess == Len(campusList) >= FULL_ACCESS_CAMPUS_COUNT
         IN [email |-> email, campuses |-> campusList, hasAccess |-> TRUE,
             isFullAccess |-> isFullAccess,
             role |-> IF isFullAccess THEN "administrator" ELSE "coordinator"]

\* the put without its third argument: CacheService's default expiration, 600 s
cachePermissions_DefaultExpiry(c, cacheKey, permissions, faults) ==
    IF "perm.put" \in faults
    THEN Returned(permissions, c, <<"cache.put:failed">>)
    ELSE Returned(permissions, CachePut(c, cacheKey, JSONStringify(permissions), 10 * 60),
                  <<"cache.put">>)

\* the inner try of getUserPermissions with the catch dropped: a failed put throws
cachePermissions_Propagate(c, cacheKey, permissions, faults) ==
    IF "perm.put" \in faults
    THEN Thrown(CacheServiceError, c, <<"cache.put:failed">>)
    ELSE Returned(permissions,
                  CachePut(c, cacheKey, JSONStringify(permissions), USER_PERMISSIONS_DURATION),
                  <<"cache.put">>)

\* the write-back storing the no-access record whatever was resolved
cachePermissions_WriteDefault(c, cacheKey, permissions, faults) ==
    IF "perm.put" \in faults
    THEN Returned(permissions, c, <<"cache.put:failed">>)
    ELSE Returned(permissions,
                  CachePut(c, cacheKey,
                           JSONStringify([permissions EXCEPT !.campuses = <<>>, !.hasAccess = FALSE,
                                                             !.isFullAccess = FALSE, !.role = "none"]),
                           USER_PERMISSIONS_DURATION),
                  <<"cache.put">>)

\* getUserPermissions, "Cache the permissions": try { cache.put } catch { logWarn }
cachePermissions(c, cacheKey, permissions, faults) ==
    IF "perm.put" \in faults
    THEN Returned(permissions, c, <<"cache.put:failed">>)
    ELSE Returned(permissions,
                  CachePut(c, cacheKey, JSONStringify(permissions), USER_PERMISSIONS_DURATION),
                  <<"cache.put">>)

\* getUserPermissions without the validation guard
getUserPermissionsBody_NoValidation(c, email, faults) ==
    LET cacheKey == PermissionsKey(email.s) IN
    IF "perm.get" \in faults
    THEN Thrown(CacheServiceError, c, <<"validate", "cache.get:failed">>)
    ELSE LET cached == CacheGet(c, cacheKey) IN
         IF cached # <<>>
         THEN Returned(JSONParse(cached[1]), c, <<"validate", "cache.get">>)
         ELSE LET permissions == loadUserPermissionsFromConfig(email.s)
                  put == cachePermissions(c, cacheKey, permissions, faults)
              IN [put EXCEPT !.steps = <<"validate", "cache.get", "lookup">> \o put.steps]

\* getUserPermissions with the cache read in a try of its own: a failed read
\* is taken as a miss
getUserPermissionsBody_ReadRecovered(c, email, faults) ==
    IF ~validateUserEmail(email)
    THEN Thrown(Error(INVALID_EMAIL), c, <<"validate">>)
    ELSE LET cacheKey == PermissionsKey(email.s)
                 cached == IF "perm.get" \in faults THEN <<>> ELSE CacheGet(c, cacheKey)
                 get == IF "perm.get" \in faults THEN "cache.get:failed" ELSE "cache.get"
         IN IF cached # <<>>
            THEN Returned(JSONParse(cached[1]), c, <<"validate", get>>)
            ELSE LET permissions == loadUserPermissionsFromConfig(email.s)
                     put == cachePermissions(c, cacheKey, permissions, faults)
                 IN [put EXCEPT !.steps = <<"validate", get, "lookup">> \o put.steps]

\* getUserPermissions resolving and writing again whatever the cache holds
getUserPermissionsBody_NoHit(c, email, faults) ==
    IF ~validateUserEmail(email)
    THEN Thrown(Error(INVALID_EMAIL), c, <<"validate">>)
    ELSE LET cacheKey == PermissionsKey(email.s) IN
         IF "perm.get" \in faults
         THEN Thrown(CacheServiceError, c, <<"validate", "cache.get:failed">>)
         ELSE LET permissions == loadUserPermissionsFromConfig(email.s)
                  put == cachePermissions(c, cacheKey, permissions, faults)
              IN [put EXCEPT !.steps = <<"validate", "cache.get", "lookup">> \o put.steps]

\* the try block of UserService.getUserPermissions
getUserPermissionsBody(c, email, faults) ==
    IF ~validateUserEmail(email)
    THEN Thrown(Error(INVALID_EMAIL), c, <<"validate">>)
    ELSE LET cacheKey == PermissionsKey(email.s) IN
         IF "perm.get" \in faults
         THEN Thrown(CacheServiceError, c, <<"validate", "cache.get:failed">>)
         ELSE LET cached == CacheGet(c, cacheKey) IN
              IF cached # <<>>
              THEN Returned(JSONParse(cached[1]), c, <<"validate", "cache.get">>)
              ELSE LET permissions == loadUserPermissionsFromConfig(email.s)
                       put == cachePermissions(c, cacheKey, permissions, faults)
                   IN [put EXCEPT !.steps = <<"validate", "cache.get", "lookup">> \o put.steps]

\* UserService.getUserPermissions: the body, and its catch that rethrows
\* createError(PERMISSION_ERROR, error, ...)
getUserPermissions(c, email, faults) ==
    LET r == getUserPermissionsBody(c, email, faults) IN
    IF r.kind = "throw"
    THEN [r EXCEPT !.value = createError(PERMISSION_ERROR, r.value, "UserService.getUserPermissions")]
    ELSE r

\* hasFullAccess with its catch answering true
hasFullAccess_CatchTrue(c, email, faults) ==
    LET r == getUserPermissions(c, email, faults) IN
    IF r.kind = "throw" THEN Returned(TRUE, r.cache, r.steps)
    ELSE Returned(r.value.isFullAccess, r.cache, r.steps)

\* UserService.hasFullAccess
hasFullAccess(c, email, faults) ==
    LET r == getUserPermissions(c, email, faults) IN
    IF r.kind = "throw" THEN Returned(FALSE, r.cache, r.steps \o <<"caught">>)
    ELSE Returned(r.value.isFullAccess, r.cache, r.steps)

\* UserService.clearUserCache with the entry left in place
UserService_clearUserCache_Keep(c, email, faults) ==
    Returned("undefined", c, <<"perm.remove">>)

\* UserService.clearUserCache: try { cache.remove } catch { logWarn }
UserService_clearUserCache(c, email, faults) ==
    IF "perm.remove" \in faults
    THEN Returned("undefined", c, <<"perm.remove:failed">>)
    ELSE Returned("undefined", CacheRemove(c, PermissionsKey(email)), <<"perm.remove">>)

\* Session.getActiveUser().getEmail(): it throws, or gives a string
\* UserService.getCurrentUserEmail
getCurrentUserEmail(session) ==
    IF session.throws
    THEN [kind |-> "throw",
          value |-> createError(PERMISSION_ERROR, Error("Session unavailable"),
                                "UserService.getCurrentUserEmail")]
    ELSE [kind |-> "return", value |-> session.email]

(***************************************************************************)
(* ErrorUtils                                                              *)
(***************************************************************************)
\* ErrorUtils.handleException: the error response {success:false, message, errorId}
handleException(error, context) ==
    [success |-> FALSE, message |-> error.message, errorId |-> "ERR"]

\* ErrorUtils.createSuccessResponse
createSuccessResponse(data, message) ==
    [success |-> TRUE, data |-> data, message |-> message]

(***************************************************************************)
(* Tabular Data Source and Data Transform Pipeline (DataService)           *)
(***************************************************************************)
DATA_TAG == <<"d","a","t","a","_">>

\* the processed-data cache key of an identity
DataKey(email) == PREFIX \o DATA_TAG \o email

\* Array.prototype.indexOf, 1-based; 0 when absent
IndexOf(seq, x) ==
    IF \E i \in 1..Len(seq) : seq[i] = x
    THEN CHOOSE i \in 1..Len(seq) : seq[i] = x /\ \A j \in 1..(i - 1) : seq[j] # x
    ELSE 0

\* Array.prototype.includes
Includes(seq, x) == \E i \in 1..Len(seq) : seq[i] = x

\* the cell blanked where it should be taken out
Splice_Blank(row, colIndex) ==
    IF colIndex + 1 > Len(row) THEN row
    ELSE [row EXCEPT ![colIndex + 1] = ""]

\* row.splice(colIndex, 1), colIndex 0-based: nothing is removed past the end
Splice(row, colIndex) ==
    IF colIndex + 1 > Len(row) THEN row
    ELSE SubSeq(row, 1, colIndex) \o SubSeq(row, colIndex + 2, Len(row))

\* the column indexes taken in the order given
SortDescending_AsGiven(seq) == seq

\* [...columnIndexes].sort((a, b) => b - a)
RECURSIVE SortDescending(_)
SortDescending(seq) ==
    IF seq = <<>> THEN <<>>
    ELSE LET m == CHOOSE i \in 1..Len(seq) : \A j \in 1..Len(seq) : seq[j] <= seq[i]
         IN <<seq[m]>> \o SortDescending(SubSeq(seq, 1, m - 1) \o SubSeq(seq, m + 1, Len(seq)))

RECURSIVE SpliceAll(_, _)
SpliceAll(row, sortedColumns) ==
    IF sortedColumns = <<>> THEN row
    ELSE SpliceAll(Splice(row, Head(sortedColumns)), Tail(sortedColumns))

\* DataService.removeColumns
removeColumns(data, columnIndexes) ==
    LET sortedColumns == SortDescending(columnIndexes)
    IN [i \in 1..Len(data) |-> SpliceAll(data[i], sortedColumns)]

\* a native date cell in the display pattern MM/dd/yy; any other cell unchanged
FormatDate(cell) ==
    CASE cell = "2024-01-01T00:00" -> "01/01/24"
      [] cell = "2024-01-02T00:00" -> "01/02/24"
      [] OTHER -> cell

\* DataService.formatDates: the named date columns still present, data rows only
formatDates(data, dateColumns) ==
    IF data = <<>> THEN data
    ELSE LET headers == data[1]
             isDate(j) == j <= Len(headers) /\ Includes(dateColumns, headers[j])
         IN [i \in 1..Len(data) |->
                IF i = 1 THEN data[i]
                ELSE [j \in 1..Len(data[i]) |->
                        IF isDate(j) THEN FormatDate(data[i][j]) ELSE data[i][j]]]

\* the rows of `data` that `keep` accepts, header first
RECURSIVE FilterRows(_, _, _, _)
FilterRows(data, i, campusIndex, campuses) ==
    IF i > Len(data) THEN <<>>
    ELSE LET row == data[i]
             kept == i = 1 \/ (campusIndex <= Len(row) /\ Includes(campuses, row[campusIndex]))
         IN (IF kept THEN <<row>> ELSE <<>>) \o FilterRows(data, i + 1, campusIndex, campuses)

\* filterDataByCampuses with the campus test left out
filterDataByCampuses_KeepAll(data, campusIndex, permissions) == data

\* DataService.filterDataByCampuses: full access keeps every row
filterDataByCampuses(data, campusIndex, permissions) ==
    IF permissions.isFullAccess THEN data
    ELSE FilterRows(data, 1, campusIndex, permissions.campuses)

\* the Data Transform Pipeline with the campus column found anywhere: no error
pipeline_AnyColumn(rawTable, permissions, campusColumn, columnsToRemove, dateColumns) ==
    LET campusIndex == IF IndexOf(rawTable[1], campusColumn) = 0 THEN 1
                       ELSE IndexOf(rawTable[1], campusColumn)
    IN [kind |-> "return",
        value |-> formatDates(removeColumns(filterDataByCampuses(rawTable, campusIndex, permissions),
                                            columnsToRemove),
                              dateColumns)]

\* process(rawTable, allowedCampuses, config): locate the campus column, filter,
\* remove, format
pipeline(rawTable, permissions, campusColumn, columnsToRemove, dateColumns) ==
    LET campusIndex == IndexOf(rawTable[1], campusColumn) IN
    IF campusIndex = 0
    THEN [kind |-> "throw", value |-> Error(NO_CAMPUS_COLUMN)]
    ELSE [kind |-> "return",
          value |-> formatDates(removeColumns(filterDataByCampuses(rawTable, campusIndex, permissions),
                                              columnsToRemove),
                                dateColumns)]

\* the Data Transform Pipeline under the configuration of Config.js
process(c, rawTable, permissions) ==
    LET r == pipeline(rawTable, permissions, CAMPUS_COLUMN, COLUMNS_TO_REMOVE, DATE_COLUMNS) IN
    IF r.kind = "throw"
    THEN Thrown(r.value, c, <<"process:failed">>)
    ELSE Returned(r.value, c, <<"process">>)

\* the data source: open() then readAll()
getRawData(c, sheet) ==
    IF sheet.status = "unavailable"
    THEN Thrown(Error("Data source unavailable"), c, <<"open:failed">>)
    ELSE IF sheet.status = "unreadable" \/ sheet.rows = <<>>
    THEN Thrown(Error(DATA_LOAD_ERROR), c, <<"open", "read:failed">>)
    ELSE Returned(sheet.rows, c, <<"open", "read">>)

\* an outcome with the steps of what ran before it
After(steps, r) == [r EXCEPT !.steps = steps \o r.steps]

\* getProcessedDataForUser once the permissions are known: the pipeline
getProcessedDataForUser_permissions(perms, rawTable, steps) ==
    IF perms.kind = "throw" THEN After(steps, perms)
    ELSE IF ~perms.value.hasAccess
    THEN Thrown(Error("Access denied: Invalid domain or permissions"), perms.cache,
                steps \o perms.steps)
    ELSE After(steps \o perms.steps, process(perms.cache, rawTable, perms.value))

\* getProcessedDataForUser once the raw rows are read: the caller's permissions
getProcessedDataForUser_raw(raw, email, faults) ==
    IF raw.kind = "throw" THEN raw
    ELSE getProcessedDataForUser_permissions(
             getUserPermissions(raw.cache, JsString(email), faults), raw.value, raw.steps)

\* DataService.getProcessedDataForUser: raw rows, the caller's permissions, the pipeline
getProcessedDataForUser(c, email, faults, sheet) ==
    getProcessedDataForUser_raw(getRawData(c, sheet), email, faults)

\* the processed-data cache write: a failure is logged and swallowed
cacheData(c, cacheKey, data, faults) ==
    IF "data.put" \in faults
    THEN Returned(data, c, <<"data.put:failed">>)
    ELSE Returned(data, CachePut(c, cacheKey, JSONStringify(data), DATA_CACHE_DURATION),
                  <<"data.put">>)

\* getCachedDataForUser on a miss, once the data is processed: cache it
getCachedDataForUser_processed(r, cacheKey, faults) ==
    IF r.kind = "throw" THEN After(<<"data.get:miss">>, r)
    ELSE After(<<"data.get:miss">> \o r.steps, cacheData(r.cache, cacheKey, r.value, faults))

\* getCachedDataForUser once the cache has answered
getCachedDataForUser_cached(cached, c, email, faults, sheet) ==
    IF cached # <<>>
    THEN Returned(JSONParse(cached[1]), c, <<"data.get:hit">>)
    ELSE getCachedDataForUser_processed(getProcessedDataForUser(c, email, faults, sheet),
                                        DataKey(email), faults)

\* DataService.getCachedDataForUser
getCachedDataForUser(c, email, faults, sheet) ==
    IF "data.get" \in faults
    THEN Thrown(CacheServiceError, c, <<"data.get:failed">>)
    ELSE getCachedDataForUser_cached(CacheGet(c, DataKey(email)), c, email, faults, sheet)

\* DataService.clearDataCache
clearDataCache(c, email, faults) ==
    IF "data.remove" \in faults
    THEN Thrown(CacheServiceError, c, <<"data.remove:failed">>)
    ELSE Returned("undefined", CacheRemove(c, DataKey(email)), <<"data.remove">>)

(***************************************************************************)
(* API Surface                                                             *)
(***************************************************************************)
\* JSON.stringify([])
EmptyGrid == JSONStringify(<<>>)

\* the catch of filterCaseloadData rethrowing what it caught
filterCaseloadData_catch_Rethrow(error, c, steps) == Thrown(error, c, steps \o <<"caught">>)

\* the catch of filterCaseloadData: handleException, log, return JSON.stringify([])
filterCaseloadData_catch(error, c, steps) == Returned(EmptyGrid, c, steps \o <<"caught">>)

\* filterCaseloadData from "Get processed data" on
filterCaseloadData_data(data, steps) ==
    IF data.kind = "throw"
    THEN filterCaseloadData_catch(data.value, data.cache, steps \o data.steps)
    ELSE IF Len(data.value) = 0
    THEN Returned(EmptyGrid, data.cache, steps \o data.steps \o <<"no_data">>)
    ELSE Returned(JSONStringify(data.value), data.cache, steps \o data.steps \o <<"success">>)

\* filterCaseloadData from "Get user permissions" on
filterCaseloadData_permissions(perms, userEmail, faults, sheet) ==
    IF perms.kind = "throw"
    THEN filterCaseloadData_catch(perms.value, perms.cache, <<"session">> \o perms.steps)
    ELSE IF ~perms.value.hasAccess
    THEN Returned(EmptyGrid, perms.cache, <<"session">> \o perms.steps \o <<"denied">>)
    ELSE filterCaseloadData_data(getCachedDataForUser(perms.cache, userEmail.s, faults, sheet),
                                 <<"session">> \o perms.steps)

\* filterCaseloadData from "Get current user" on
filterCaseloadData_user(who, c, faults, sheet) ==
    IF who.kind = "throw"
    THEN filterCaseloadData_catch(who.value, c, <<"session:failed">>)
    ELSE IF Falsy(who.value)
    THEN filterCaseloadData_catch(Error("Unable to identify current user"), c, <<"session">>)
    ELSE IF ~validateUserEmail(who.value)
    THEN Returned(EmptyGrid, c, <<"session", "invalid">>)
    ELSE filterCaseloadData_permissions(getUserPermissions(c, who.value, faults),
                                        who.value, faults, sheet)

\* filterCaseloadData
filterCaseloadData(c, session, faults, sheet) ==
    filterCaseloadData_user(getCurrentUserEmail(session), c, faults, sheet)

\* clearUserCache
clearUserCache(c, session, faults) ==
    LET who == getCurrentUserEmail(session) IN
    IF who.kind = "throw"
    THEN Returned(handleException(who.value, "clearUserCache"), c, <<"session:failed", "caught">>)
    ELSE LET userEmail == who.value IN
    IF Falsy(userEmail)
    THEN Returned(handleException(Error("Unable to identify current user"), "clearUserCache"),
                  c, <<"session", "caught">>)
    ELSE LET p == UserService_clearUserCache(c, userEmail.s, faults)
             d == clearDataCache(p.cache, userEmail.s, faults)
             steps == <<"session">> \o p.steps \o d.steps
         IN
    IF d.kind = "throw"
    THEN Returned(handleException(d.value, "clearUserCache"), d.cache, steps \o <<"caught">>)
    ELSE Returned(createSuccessResponse("null", "Cache cleared successfully"), d.cache, steps)

\* the key of the cache probe: cache.put('health_test', 'test', 1)
HEALTH_KEY == <<"h","e","a","l","t","h","_","t","e","s","t">>

\* DataService.getDataStatistics: the statistics, or on a failed read or a missing
\* campus column an object with `error` set ("error") or an exception ("throws")
getDataStatistics(sheet, mode) ==
    IF sheet.status # "ok" \/ sheet.rows = <<>> THEN mode
    ELSE IF IndexOf(sheet.rows[1], CAMPUS_COLUMN) = 0 THEN mode
    ELSE "ok"

\* healthCheck with the four probes in one try: the first failure skips the rest
healthCheck_OneTry(c, session, sheet, putFails, mode) ==
    LET who == getCurrentUserEmail(session)
        stats == getDataStatistics(sheet, mode)
        p1 == sheet.status # "unavailable"
        p2 == p1 /\ who.kind = "return" /\ ~Falsy(who.value)
        p3 == p1 /\ who.kind = "return" /\ ~putFails
        p4 == p3 /\ stats = "ok"
        ran2 == p1
        ran3 == ran2 /\ who.kind = "return"
        ran4 == p3 /\ ran3
    IN Returned([status |-> IF p1 /\ p2 /\ p3 /\ p4 THEN "healthy" ELSE "degraded",
                 tests |-> [spreadsheetAccess |-> p1, userService |-> p2,
                            cacheService |-> p3, dataProcessing |-> p4]],
                IF p3 THEN CachePut(c, HEALTH_KEY, "test", 1) ELSE c,
                <<IF p1 THEN "probe.sheet" ELSE "probe.sheet:failed">>
                  \o (IF ~ran2 THEN <<>>
                      ELSE <<IF who.kind = "return" THEN "probe.user" ELSE "probe.user:failed">>)
                  \o (IF ~ran3 THEN <<>>
                      ELSE <<IF ~putFails THEN "probe.cache" ELSE "probe.cache:failed">>)
                  \o (IF ~ran4 THEN <<>>
                      ELSE <<IF stats # "throws" THEN "probe.data" ELSE "probe.data:failed">>))

\* healthCheck: four probes, each in a try of its own
healthCheck(c, session, sheet, putFails, mode) ==
    LET who == getCurrentUserEmail(session)
        stats == getDataStatistics(sheet, mode)
        p1 == sheet.status # "unavailable"
        p2 == who.kind = "return" /\ ~Falsy(who.value)
        p3 == ~putFails
        p4 == stats = "ok"
    IN Returned([status |-> IF p1 /\ p2 /\ p3 /\ p4 THEN "healthy" ELSE "degraded",
                 tests |-> [spreadsheetAccess |-> p1, userService |-> p2,
                            cacheService |-> p3, dataProcessing |-> p4]],
                IF p3 THEN CachePut(c, HEALTH_KEY, "test", 1) ELSE c,
                << IF p1 THEN "probe.sheet" ELSE "probe.sheet:failed",
                   IF who.kind = "return" THEN "probe.user" ELSE "probe.user:failed",
                   IF p3 THEN "probe.cache" ELSE "probe.cache:failed",
                   IF stats # "throws" THEN "probe.data" ELSE "probe.data:failed" >>)

(***************************************************************************)
(* Administrative entry points                                             *)
(***************************************************************************)
SPREADSHEET_ID == "1SxbUOEIaogQyy66E4fvLcIqblGnvueduSaYz1ftsAEA"
SHEET_NAME == "CURRENT CASELOAD"
DATE_FORMAT == "MM/dd/yy"

UNAUTHORIZED_UPDATE == "Unauthorized: Only administrators can update spreadsheet configuration"
UNAUTHORIZED_MIGRATION == "Unauthorized: Only administrators can perform school year migration"
ACCESS_DENIED == "Access denied - admin privileges required"
NO_DATA_FOUND == "No data found in the specified sheet"
SHEET_NOT_FOUND == "Sheet not found in spreadsheet"
SHEET_NOT_FOUND_IN == "Sheet not found in the specified spreadsheet"
OPEN_FAILED == "You do not have permission to access the requested document."

\* String.prototype.includes
StringIncludes(s, sub) ==
    \E i \in 0..(Len(s) - Len(sub)) : SubSeq(s, i + 1, i + Len(sub)) = sub

\* the administrator test of updateSpreadsheetConfig and migrateToNewSchoolYear
IsNamedAdministrator(email) == StringIncludes(email, ALVARO) \/ StringIncludes(email, LINDA)

\* header.toString().toUpperCase(), on the header cells the model has
ToUpperCase(cell) ==
    CASE cell = "Home Campus" -> "HOME CAMPUS"
      [] cell \in {"Campus", "campus"} -> "CAMPUS"
      [] OTHER -> cell

\* upper.includes('CAMPUS'), on the upper-cased header cells the model has
IncludesCampus(upper) == upper \in {"HOME CAMPUS", "HOME CAMPUS ", "CAMPUS", "CAMPUS CODE"}

\* headers.findIndex(header => header && upper-cased header includes 'CAMPUS'),
\* 0-based; -1 when there is none
CampusFindIndex(headers) ==
    LET hit(j) == headers[j] # "" /\ IncludesCampus(ToUpperCase(headers[j])) IN
    IF \E j \in 1..Len(headers) : hit(j)
    THEN (CHOOSE j \in 1..Len(headers) : hit(j) /\ \A k \in 1..(j - 1) : ~hit(k)) - 1
    ELSE -1

\* SpreadsheetApp.openById(id).getSheetByName(name).getDataRange().getValues():
\* the message of what it throws, or "ok"
OpenTarget(target, notFound) ==
    CASE target.status = "unavailable" -> OPEN_FAILED
      [] target.status = "nosheet" -> notFound
      [] OTHER -> "ok"

\* the object an administrative function's catch returns
AdminFailure(message) == [success |-> FALSE, message |-> message, errorId |-> "ERR"]

\* testSpreadsheetConnection: the object it returns
testSpreadsheetConnection(session, target) ==
    LET who == getCurrentUserEmail(session) IN
    IF who.kind = "throw"
    THEN AdminFailure(<<"Connection test failed: ", who.value.message>>)
    ELSE IF OpenTarget(target, SHEET_NOT_FOUND) # "ok"
    THEN AdminFailure(<<"Connection test failed: ", OpenTarget(target, SHEET_NOT_FOUND)>>)
    ELSE IF target.rows = <<>>
    THEN [success |-> FALSE, message |-> <<NO_DATA_FOUND>>, spreadsheetId |-> target.name]
    ELSE LET headers == target.rows[1] IN
         [success |-> TRUE, message |-> <<"Spreadsheet connection test successful">>,
          spreadsheetId |-> target.name,
          dataRows |-> Len(target.rows) - 1, dataColumns |-> Len(headers),
          headers |-> headers,
          campusColumnFound |-> CampusFindIndex(headers) >= 0,
          campusColumnIndex |-> CampusFindIndex(headers),
          sampleData |-> SubSeq(target.rows, 1, IF Len(target.rows) < 3 THEN Len(target.rows) ELSE 3),
          testedBy |-> who.value.s]

\* getSpreadsheetConfig: the object it returns
getSpreadsheetConfig(session) ==
    LET who == getCurrentUserEmail(session) IN
    IF who.kind = "throw"
    THEN AdminFailure(<<who.value.message>>)
    ELSE [success |-> TRUE, spreadsheetId |-> SPREADSHEET_ID, sheetName |-> SHEET_NAME,
          campusColumn |-> CAMPUS_COLUMN, dateColumns |-> DATE_COLUMNS,
          columnsToRemove |-> COLUMNS_TO_REMOVE, dateFormat |-> DATE_FORMAT,
          requestedBy |-> who.value.s]

\* updateSpreadsheetConfig
updateSpreadsheetConfig(c, session, target, faults) ==
    LET who == getCurrentUserEmail(session) IN
    IF who.kind = "throw"
    THEN Returned(AdminFailure(<<who.value.message>>), c, <<"session:failed", "caught">>)
    ELSE IF ~IsNamedAdministrator(who.value.s)
    THEN Returned(AdminFailure(<<UNAUTHORIZED_UPDATE>>), c, <<"session", "unauthorized", "caught">>)
    ELSE IF OpenTarget(target, SHEET_NOT_FOUND_IN) # "ok"
    THEN Returned(AdminFailure(<<"Cannot access new spreadsheet: ",
                                 OpenTarget(target, SHEET_NOT_FOUND_IN)>>), c,
                  <<"session", "authorized", "test:failed", "caught">>)
    ELSE IF target.rows = <<>>
    THEN Returned(AdminFailure(<<"Cannot access new spreadsheet: ", NO_DATA_FOUND>>), c,
                  <<"session", "authorized", "test:failed", "caught">>)
    ELSE Returned([success |-> TRUE,
                   message |-> <<"Validation successful! To complete the update, please modify CONFIG.SPREADSHEET.SPREADSHEET_ID in Config.js">>,
                   currentSpreadsheetId |-> SPREADSHEET_ID, newSpreadsheetId |-> target.name,
                   updatedBy |-> who.value.s],
                  clearUserCache(c, session, faults).cache,
                  <<"session", "authorized", "test", "clearUserCache", "success">>)

\* a property of an object as JavaScript reads it: absent is undefined, and
\* every comparison of undefined with a number is false
Property(object, name) == IF name \in DOMAIN object THEN <<object[name]>> ELSE <<>>
Greater(x, n) == x # <<>> /\ x[1] > n
GreaterEq(x, n) == x # <<>> /\ x[1] >= n
Less(x, n) == x # <<>> /\ x[1] < n
LessEq(x, n) == x # <<>> /\ x[1] <= n

\* the five checks of analyzeDataCompatibility, `columnsWarn` telling whether the
\* last branch of the column check records its warning
compatibilityOf(newSpreadsheetTest, columnsWarn) ==
    LET t == newSpreadsheetTest
        dataRows == Property(t, "dataRows")
        dataColumns == Property(t, "dataColumns")
        hasData == Greater(dataRows, 0)
        hasCampus == Property(t, "campusColumnFound") = <<TRUE>>
        hasHeaders == Property(t, "headers") # <<>> /\ Len(t.headers) > 0
        columnsFit == GreaterEq(dataColumns, 5) /\ LessEq(dataColumns, 50)
        rowsFit == GreaterEq(dataRows, 10) /\ LessEq(dataRows, 10000)
        score == (IF hasData THEN 30 ELSE 0)
                 + (IF hasCampus THEN 25 ELSE 0)
                 + (IF hasHeaders THEN 20 ELSE 0)
                 + (IF columnsFit THEN 15 ELSE 0)
                 + (IF rowsFit THEN 10 ELSE 0)
        warnings ==
            (IF hasData THEN <<>> ELSE <<"New spreadsheet appears to have no data rows">>)
            \o (IF hasCampus THEN <<>>
                ELSE <<"Campus column not clearly identified in new spreadsheet">>)
            \o (IF hasHeaders THEN <<>> ELSE <<"No headers found in new spreadsheet">>)
            \o (IF columnsFit THEN <<>>
                ELSE IF Less(dataColumns, 5)
                THEN <<"New spreadsheet has very few columns - may be missing data">>
                ELSE IF columnsWarn
                THEN <<"New spreadsheet has many columns - may need configuration updates">>
                ELSE <<>>)
            \o (IF rowsFit THEN <<>>
                ELSE IF Less(dataRows, 10)
                THEN <<"New spreadsheet has very little data">>
                ELSE <<"New spreadsheet has a large amount of data - performance may be affected">>)
    IN [score |-> score, maxScore |-> 100, warnings |-> warnings,
        recommendations |-> IF hasCampus THEN <<>>
                            ELSE <<"Verify that a column containing campus information exists">>,
        level |-> IF score >= 90 THEN "EXCELLENT" ELSE IF score >= 70 THEN "GOOD"
                  ELSE IF score >= 50 THEN "FAIR" ELSE "POOR"]

\* analyzeDataCompatibility with the final else of the column check dropped
analyzeDataCompatibility_SilentColumns(currentConfig, newSpreadsheetTest) ==
    compatibilityOf(newSpreadsheetTest, FALSE)

\* analyzeDataCompatibility
analyzeDataCompatibility(currentConfig, newSpreadsheetTest) ==
    compatibilityOf(newSpreadsheetTest, TRUE)

\* migrateToNewSchoolYear with the cache clearing moved ahead of the two checks
migrateToNewSchoolYear_ClearFirst(c, session, target, faults) ==
    LET who == getCurrentUserEmail(session)
        failure(message) == [success |-> FALSE, error |-> message]
        cleared == clearUserCache(c, session, faults).cache
    IN
    IF who.kind = "throw"
    THEN Thrown(who.value, c, <<"session:failed">>)
    ELSE IF ~IsNamedAdministrator(who.value.s)
    THEN Returned(failure(<<UNAUTHORIZED_MIGRATION>>), cleared,
                  <<"session", "clearUserCache", "unauthorized", "caught">>)
    ELSE LET connectionTest == testSpreadsheetConnection(session, target) IN
    IF ~connectionTest.success
    THEN Returned(failure(<<"New spreadsheet validation failed: ">> \o connectionTest.message),
                  cleared, <<"session", "clearUserCache", "authorized", "test:failed", "caught">>)
    ELSE LET currentConfig == getSpreadsheetConfig(session) IN
         Returned([success |-> TRUE, performedBy |-> who.value.s,
                   currentConfiguration |-> [spreadsheetId |-> currentConfig.spreadsheetId,
                                             sheetName |-> currentConfig.sheetName],
                   newConfiguration |-> [spreadsheetId |-> target.name,
                                         dataRows |-> connectionTest.dataRows,
                                         dataColumns |-> connectionTest.dataColumns],
                   compatibility |-> analyzeDataCompatibility(currentConfig, connectionTest)],
                  cleared,
                  <<"session", "clearUserCache", "authorized", "test", "success">>)

\* migrateToNewSchoolYear: the identity is read before the try
migrateToNewSchoolYear(c, session, target, faults) ==
    LET who == getCurrentUserEmail(session)
        failure(message) == [success |-> FALSE, error |-> message]
    IN
    IF who.kind = "throw"
    THEN Thrown(who.value, c, <<"session:failed">>)
    ELSE IF ~IsNamedAdministrator(who.value.s)
    THEN Returned(failure(<<UNAUTHORIZED_MIGRATION>>), c, <<"session", "unauthorized", "caught">>)
    ELSE LET connectionTest == testSpreadsheetConnection(session, target) IN
    IF ~connectionTest.success
    THEN Returned(failure(<<"New spreadsheet validation failed: ">> \o connectionTest.message), c,
                  <<"session", "authorized", "test:failed", "caught">>)
    ELSE LET currentConfig == getSpreadsheetConfig(session) IN
         Returned([success |-> TRUE, performedBy |-> who.value.s,
                   currentConfiguration |-> [spreadsheetId |-> currentConfig.spreadsheetId,
                                             sheetName |-> currentConfig.sheetName],
                   newConfiguration |-> [spreadsheetId |-> target.name,
                                         dataRows |-> connectionTest.dataRows,
                                         dataColumns |-> connectionTest.dataColumns],
                   compatibility |-> analyzeDataCompatibility(currentConfig, connectionTest)],
                  clearUserCache(c, session, faults).cache,
                  <<"session", "authorized", "test", "clearUserCache", "success">>)

\* emergencyRollback
emergencyRollback(c, session, target, faults) ==
    LET who == getCurrentUserEmail(session) IN
    IF who.kind = "throw"
    THEN Returned([success |-> FALSE, error |-> <<who.value.message>>], c,
                  <<"session:failed", "caught">>)
    ELSE LET rollbackTest == testSpreadsheetConnection(session, target) IN
    IF ~rollbackTest.success
    THEN Returned([success |-> FALSE,
                   error |-> <<"Rollback target validation failed: ">> \o rollbackTest.message], c,
                  <<"session", "test:failed", "caught">>)
    ELSE Returned([success |-> TRUE, message |-> <<"Rollback target validated successfully">>,
                   rollbackTarget |-> rollbackTest],
                  clearUserCache(c, session, faults).cache,
                  <<"session", "test", "clearUserCache", "success">>)

\* getAppConfig with the full-access test left out
getAppConfig_AnyCaller(c, session, faults) ==
    LET who == getCurrentUserEmail(session) IN
    IF who.kind = "throw"
    THEN Returned(handleException(who.value, "getAppConfig"), c, <<"session:failed", "caught">>)
    ELSE Returned([spreadsheet |-> [sheetName |-> SHEET_NAME, campusColumn |-> CAMPUS_COLUMN,
                                    dateColumns |-> DATE_COLUMNS, dateFormat |-> DATE_FORMAT],
                   campuses |-> AllCampuses, version |-> "2.0.0"],
                  c, <<"session", "success">>)

\* UserService.getUserSummary
getUserSummary(c, email, faults) ==
    LET r == getUserPermissions(c, email, faults) IN
    IF r.kind = "throw"
    THEN Returned([email |-> email, isValid |-> FALSE, hasAccess |-> FALSE,
                   error |-> r.value.message], r.cache, r.steps \o <<"caught">>)
    ELSE Returned([email |-> email, isValid |-> validateUserEmail(email),
                   hasAccess |-> r.value.hasAccess, campusCount |-> Len(r.value.campuses),
                   isFullAccess |-> r.value.isFullAccess, role |-> r.value.role,
                   campuses |-> r.value.campuses], r.cache, r.steps)

\* getUserInfo(email = null)
getUserInfo(c, session, email, faults, sheet, mode) ==
    LET who == getCurrentUserEmail(session) IN
    IF who.kind = "throw"
    THEN Returned(handleException(who.value, "getUserInfo"), c, <<"session:failed", "caught">>)
    ELSE LET targetEmail == IF Falsy(email) THEN who.value ELSE email
             full == hasFullAccess(c, who.value, faults)
         IN
    IF ~full.value
    THEN Returned([error |-> ACCESS_DENIED], full.cache, <<"session">> \o full.steps \o <<"denied">>)
    ELSE LET userSummary == getUserSummary(full.cache, targetEmail, faults)
             dataStats == getDataStatistics(sheet, mode)
             steps == <<"session">> \o full.steps \o <<"summary">> \o userSummary.steps
         IN
    IF dataStats = "throws"
    THEN Returned(handleException(Error(DATA_LOAD_ERROR), "getUserInfo"), userSummary.cache,
                  steps \o <<"statistics:failed", "caught">>)
    ELSE Returned([user |-> userSummary.value, dataStatistics |-> dataStats], userSummary.cache,
                  steps \o <<"statistics", "success">>)

\* getSystemInfo
getSystemInfo(c, session, faults) ==
    LET who == getCurrentUserEmail(session) IN
    IF who.kind = "throw"
    THEN Returned(handleException(who.value, "getSystemInfo"), c, <<"session:failed", "caught">>)
    ELSE LET full == hasFullAccess(c, who.value, faults) IN
    IF ~full.value
    THEN Returned([error |-> ACCESS_DENIED], full.cache, <<"session">> \o full.steps \o <<"denied">>)
    ELSE Returned([timezone |-> "America/Chicago", locale |-> "en", user |-> who.value.s],
                  full.cache, <<"session">> \o full.steps \o <<"success">>)

\* getAppConfig
getAppConfig(c, session, faults) ==
    LET who == getCurrentUserEmail(session) IN
    IF who.kind = "throw"
    THEN Returned(handleException(who.value, "getAppConfig"), c, <<"session:failed", "caught">>)
    ELSE LET full == hasFullAccess(c, who.value, faults) IN
    IF ~full.value
    THEN Returned([error |-> ACCESS_DENIED], full.cache, <<"session">> \o full.steps \o <<"denied">>)
    ELSE Returned([spreadsheet |-> [sheetName |-> SHEET_NAME, campusColumn |-> CAMPUS_COLUMN,
                                    dateColumns |-> DATE_COLUMNS, dateFormat |-> DATE_FORMAT],
                   campuses |-> AllCampuses, version |-> "2.0.0"],
                  full.cache, <<"session">> \o full.steps \o <<"success">>)

\* doGet: the page, or the error page when the template cannot be built
doGet(c, session, templateFails) ==
    IF templateFails
    THEN Returned([title |-> "Application Error - Debug Info",
                   message |-> "Exception: HTML file not found"], c, <<"template:failed", "caught">>)
    ELSE Returned([title |-> "Index", message |-> ""], c,
                  <<"template",
                    IF getCurrentUserEmail(session).kind = "throw" THEN "activity:failed"
                    ELSE "activity">>)

(***************************************************************************)
(* The environment: who calls, what the sheet holds, which calls fail.     *)
(***************************************************************************)
\* most CacheService calls that fail within one request
MaxFaults == 1

TEST == <<"t","e","s","t","@","n","i","s","d",".","n","e","t">>
BAD == <<"t","e","s","t","@","w","r","o","n","g","d","o","m","a","i","n",".","c","o","m">>
NOLOCAL == <<"@","n","i","s","d",".","n","e","t">>

\* the identities the hosting platform reports in the main specification
Callers == {LINDA, DESIREE, TEST, BAD, <<>>}

Sessions ==
    {[throws |-> TRUE, email |-> JsString(<<>>)]}
        \cup {[throws |-> FALSE, email |-> JsString(e)] : e \in Callers}

\* the arguments the UserService methods are called with
Arguments == {JsNull, JsNumber, JsString(NOLOCAL)} \cup {JsString(e) : e \in Callers}

FaultSets == {f \in SUBSET CacheFaults : Cardinality(f) <= MaxFaults}

Header15 ==
    <<"STUDENT", "GRADE", "HOME CAMPUS", "ENTRY DATE", "ESCHOOL ", "LAST ARD", "CASE MANAGER",
      "H7", "H8", "H9", "DATA SHARED", "IEP SHARED", "H12", "H13", "H14">>

Row(name, campus, date) ==
    <<name, "9", campus, date, date, "n/a", "cm", "x7", "x8", "x9", date, "", "x12", "x13", "x14">>

RowAnn == Row("Ann", "Brandeis", "2024-01-01T00:00")
RowBob == Row("Bob", "Clark", "2024-01-02T00:00")
RowCy == Row("Cy", "NAHS", "pending")
RowDee == Row("Dee", "Private", "2024-01-01T00:00")

Sheets ==
    { [name |-> "main", status |-> "ok", rows |-> <<Header15, RowAnn, RowBob, RowCy, RowDee>>],
      [name |-> "clark", status |-> "ok", rows |-> <<Header15, RowBob>>],
      [name |-> "nocampus", status |-> "ok",
       rows |-> <<[Header15 EXCEPT ![3] = "Home Campus"], RowAnn>>],
      [name |-> "empty", status |-> "ok", rows |-> <<>>],
      [name |-> "unavailable", status |-> "unavailable", rows |-> <<>>] }

SheetNamed(n) == CHOOSE sh \in Sheets : sh.name = n

NoCache == [k \in {} |-> [value |-> JSONStringify(<<>>), left |-> 0]]

Response(op, arg, r, read) ==
    [op |-> op, arg |-> arg, kind |-> r.kind, value |-> r.value, steps |-> r.steps,
     read |-> read]

\* no response in flight
NoResponse ==
    [op |-> "none", arg |-> JsNull, kind |-> "return", value |-> "undefined",
     steps |-> <<>>, read |-> "(none)"]

Init ==
    /\ cache = NoCache
    /\ resp = NoResponse

\* userService.validateUserEmail(email)
ValidateUserEmail(email) ==
    /\ resp.op = "none"
    /\ resp' = Response("validateUserEmail", email,
                        Returned(validateUserEmail(email), cache, <<"validate">>), "(none)")
    /\ UNCHANGED cache

\* userService.getUserPermissions(email)
GetUserPermissions(email, faults) ==
    LET r == getUserPermissions(cache, email, faults) IN
    /\ resp.op = "none"
    /\ cache' = r.cache
    /\ resp' = Response("getUserPermissions", email, r, "(none)")

\* userService.hasFullAccess(email)
HasFullAccess(email, faults) ==
    LET r == hasFullAccess(cache, email, faults) IN
    /\ resp.op = "none"
    /\ cache' = r.cache
    /\ resp' = Response("hasFullAccess", email, r, "(none)")

\* google.script.run.filterCaseloadData()
FilterCaseloadData(session, faults, sheet) ==
    LET r == filterCaseloadData(cache, session, faults, sheet) IN
    /\ resp.op = "none"
    /\ cache' = r.cache
    /\ resp' = Response("filterCaseloadData", session, r,
                        IF Includes(r.steps, "read") THEN sheet.name ELSE "(none)")

\* google.script.run.clearUserCache()
ClearUserCache(session, faults) ==
    LET r == clearUserCache(cache, session, faults) IN
    /\ resp.op = "none"
    /\ cache' = r.cache
    /\ resp' = Response("clearUserCache", session, r, "(none)")

\* google.script.run.healthCheck()
HealthCheck(session, sheet, putFails, mode) ==
    LET r == healthCheck(cache, session, sheet, putFails, mode) IN
    /\ resp.op = "none"
    /\ cache' = r.cache
    /\ resp' = Response("healthCheck",
                        [throws |-> session.throws, email |-> session.email,
                         sheet |-> sheet.name, putFails |-> putFails, mode |-> mode],
                        r, "(none)")

\* TickSeconds pass: the cache drops what has expired
Tick ==
    /\ resp.op = "none"
    /\ DOMAIN cache # {}
    /\ cache' = CacheAfter(cache, TickSeconds)
    /\ UNCHANGED resp

\* the caller takes the response: the request is over
Receive ==
    /\ resp.op # "none"
    /\ resp' = NoResponse
    /\ UNCHANGED cache

Next ==
    \/ Receive
    \/ \E email \in Arguments : ValidateUserEmail(email)
    \/ \E email \in Arguments, faults \in FaultSets : GetUserPermissions(email, faults)
    \/ \E email \in Arguments, faults \in FaultSets : HasFullAccess(email, faults)
    \/ \E session \in Sessions, faults \in FaultSets, sheet \in Sheets :
          FilterCaseloadData(session, faults, sheet)
    \/ \E session \in Sessions, faults \in FaultSets : ClearUserCache(session, faults)
    \/ \E session \in Sessions, sheet \in Sheets, putFails \in BOOLEAN, mode \in {"error", "throws"} :
          HealthCheck(session, sheet, putFails, mode)
    \/ Tick

Spec == Init /\ [][Next]_vars

(***************************************************************************)
(* validateUserEmail alone, on every string of at most MaxLocalLen         *)
(* characters of a small alphabet followed by one of three endings.        *)
(***************************************************************************)
Alphabet == {"a", "@", ".", " "}

RECURSIVE StringsUpTo(_)
StringsUpTo(n) ==
    IF n = 0 THEN {<<>>}
    ELSE LET shorter == StringsUpTo(n - 1)
         IN shorter \cup {Append(s, ch) : s \in shorter, ch \in Alphabet}

Endings ==
    {<<>>, ALLOWED_DOMAIN,
     <<"@","w","r","o","n","g","d","o","m","a","i","n",".","c","o","m">>,
     <<"@","n","i","s","d",".","n","e","t","x">>}

ValidationInputs ==
    {JsNull, JsNumber} \cup {JsString(s \o e) : s \in StringsUpTo(MaxLocalLen), e \in Endings}

NextValidate ==
    \/ \E email \in ValidationInputs : ValidateUserEmail(email)
    \/ Receive

SpecValidate == Init /\ [][NextValidate]_vars

(***************************************************************************)
(* The Data Transform Pipeline alone, on small rectangular tables (what    *)
(* Range.getValues() gives), and filterCaseloadData over it for the        *)
(* identity with every campus, without cache faults.                       *)
(***************************************************************************)
\* most data rows of a generated table
MaxRows == 2
\* most cells of a generated row given to removeColumns
MaxCols == 5
\* most indexes of a generated removal list
MaxRemoved == 3

RECURSIVE SeqsUpTo(_, _)
\* the sequences over `pool` of at most n elements
SeqsUpTo(pool, n) ==
    IF n = 0 THEN {<<>>}
    ELSE LET shorter == SeqsUpTo(pool, n - 1)
         IN shorter \cup {Append(q, x) : q \in shorter, x \in pool}

PipelineHeaders ==
    { <<"Name", "Campus", "X">>, <<"Name", "campus", "X">>,
      <<"Name", "HOME CAMPUS", "ENTRY DATE">>, <<"Name", "HOME CAMPUS ", "X">> }

PipelineRows ==
    { <<"A", "Site1", "1">>, <<"B", "Site2", "2">>, <<"C", "site1", "2024-01-01T00:00">> }

\* header first, then at most MaxRows rows as wide as the header
PipelineTables == {<<h>> \o rows : h \in PipelineHeaders, rows \in SeqsUpTo(PipelineRows, MaxRows)}

\* the permission records the pipeline is given
PipelinePermissions ==
    {[email |-> TEST, campuses |-> cs, hasAccess |-> TRUE, isFullAccess |-> FALSE,
      role |-> "coordinator"] : cs \in {<<>>, <<"Site1">>, <<"site1">>, <<"Site2", "Site1">>}}
    \cup {[email |-> TEST, campuses |-> <<"Site1">>, hasAccess |-> TRUE, isFullAccess |-> TRUE,
           role |-> "administrator"]}

\* removal lists: in range, in either order, and past the end of a 3-column row
\* (the configured list is, all of it)
PipelineColumns == {<<>>, <<2>>, <<1>>, <<0, 2>>, <<2, 0>>, <<2, 7>>, COLUMNS_TO_REMOVE}

Letters == <<"A", "B", "C", "D", "E", "F", "G">>

\* the sequences of distinct elements of 0..(n - 1), at most MaxRemoved long
DistinctIndexes(n) ==
    {q \in SeqsUpTo(0..(n - 1), MaxRemoved) : \A i, j \in 1..Len(q) : i # j => q[i] # q[j]}

\* the (row, columnIndexes) pairs removeColumns is tried on
RemovalInputs ==
    {<<SubSeq(Letters, 1, n), q>> : n \in 1..MaxCols, q \in DistinctIndexes(MaxCols)}
    \cup {<<Header15, q>> : q \in {COLUMNS_TO_REMOVE, <<14, 7, 12, 9, 13, 8>>, <<14, 13, 12, 9, 8, 7>>}}

\* process(rawTable, allowedCampuses, config)
Process(rawTable, permissions, campusColumn, columnsToRemove) ==
    LET r == pipeline(rawTable, permissions, campusColumn, columnsToRemove, DATE_COLUMNS) IN
    /\ resp.op = "none"
    /\ resp' = Response("process",
                        [rawTable |-> rawTable, permissions |-> permissions,
                         campusColumn |-> campusColumn, columnsToRemove |-> columnsToRemove],
                        [kind |-> r.kind, value |-> r.value, steps |-> <<"process">>], "(none)")
    /\ UNCHANGED cache

\* removeColumns(data, columnIndexes) on a one-row grid
RemoveColumns(row, columnIndexes) ==
    /\ resp.op = "none"
    /\ resp' = Response("removeColumns", [row |-> row, columnIndexes |-> columnIndexes],
                        Returned(removeColumns(<<row>>, columnIndexes), cache, <<"removeColumns">>),
                        "(none)")
    /\ UNCHANGED cache

NextPipeline ==
    \/ Receive
    \/ \E rawTable \in PipelineTables, permissions \in PipelinePermissions,
          campusColumn \in {"Campus", CAMPUS_COLUMN}, columnsToRemove \in PipelineColumns :
          Process(rawTable, permissions, campusColumn, columnsToRemove)
    \/ \E in \in RemovalInputs : RemoveColumns(in[1], in[2])
    \/ \E sheet \in {sh \in Sheets : sh.name \in {"main", "nocampus"}} :
          FilterCaseloadData([throws |-> FALSE, email |-> JsString(LINDA)], {}, sheet)

SpecPipeline == Init /\ [][NextPipeline]_vars

(***************************************************************************)
(* Every entry point a client or an operator can call.                     *)
(***************************************************************************)
\* the identities the hosting platform reports to the entry points
EntryCallers == {LINDA, ALVARO, DESIREE, TEST, <<>>}

EntrySessions ==
    {[throws |-> TRUE, email |-> JsString(<<>>)]}
        \cup {[throws |-> FALSE, email |-> JsString(e)] : e \in EntryCallers}

\* an address of the domain that has an administrator's address inside it
XLINDA == <<"x">> \o LINDA

\* the sessions that call the two functions guarded by the named-address test
AdminSessions == EntrySessions \cup {[throws |-> FALSE, email |-> JsString(XLINDA)]}

\* the sheet the configuration names, as a request can find it
EntrySheets == {sh \in Sheets : sh.name \in {"main", "nocampus", "unavailable"}}

\* the spreadsheets an administrative call can name
Targets ==
    Sheets \cup {[name |-> "nosheet", status |-> "nosheet", rows |-> <<>>],
                 [name |-> "twocampus", status |-> "ok",
                  rows |-> <<[Header15 EXCEPT ![2] = "CAMPUS CODE"], RowAnn>>]}

\* the response of an administrative call on a target
AdminResponse(op, session, target, r) ==
    Response(op, [throws |-> session.throws, email |-> session.email, target |-> target.name],
             r, "(none)")

DoGet(session, templateFails) ==
    /\ resp.op = "none"
    /\ resp' = Response("doGet", session, doGet(cache, session, templateFails), "(none)")
    /\ UNCHANGED cache

GetAppConfig(session, faults) ==
    LET r == getAppConfig(cache, session, faults) IN
    /\ resp.op = "none"
    /\ cache' = r.cache
    /\ resp' = Response("getAppConfig", session, r, "(none)")

GetUserInfo(session, email, faults, sheet, mode) ==
    LET r == getUserInfo(cache, session, email, faults, sheet, mode) IN
    /\ resp.op = "none"
    /\ cache' = r.cache
    /\ resp' = Response("getUserInfo",
                        [throws |-> session.throws, email |-> session.email, target |-> email],
                        r, "(none)")

GetSystemInfo(session, faults) ==
    LET r == getSystemInfo(cache, session, faults) IN
    /\ resp.op = "none"
    /\ cache' = r.cache
    /\ resp' = Response("getSystemInfo", session, r, "(none)")

UpdateSpreadsheetConfig(session, target, faults) ==
    LET r == updateSpreadsheetConfig(cache, session, target, faults) IN
    /\ resp.op = "none"
    /\ cache' = r.cache
    /\ resp' = AdminResponse("updateSpreadsheetConfig", session, target, r)

GetSpreadsheetConfig(session) ==
    /\ resp.op = "none"
    /\ resp' = Response("getSpreadsheetConfig", session,
                        Returned(getSpreadsheetConfig(session), cache, <<"getSpreadsheetConfig">>),
                        "(none)")
    /\ UNCHANGED cache

TestSpreadsheetConnection(session, target) ==
    /\ resp.op = "none"
    /\ resp' = AdminResponse("testSpreadsheetConnection", session, target,
                             Returned(testSpreadsheetConnection(session, target), cache,
                                      <<"testSpreadsheetConnection">>))
    /\ UNCHANGED cache

MigrateToNewSchoolYear(session, target, faults) ==
    LET r == migrateToNewSchoolYear(cache, session, target, faults) IN
    /\ resp.op = "none"
    /\ cache' = r.cache
    /\ resp' = AdminResponse("migrateToNewSchoolYear", session, target, r)

EmergencyRollback(session, target, faults) ==
    LET r == emergencyRollback(cache, session, target, faults) IN
    /\ resp.op = "none"
    /\ cache' = r.cache
    /\ resp' = AdminResponse("emergencyRollback", session, target, r)

NextEntry ==
    \/ Receive
    \/ \E session \in EntrySessions, templateFails \in BOOLEAN : DoGet(session, templateFails)
    \/ \E session \in EntrySessions, faults \in FaultSets, sheet \in EntrySheets :
          FilterCaseloadData(session, faults, sheet)
    \/ \E session \in EntrySessions, faults \in FaultSets : ClearUserCache(session, faults)
    \/ \E session \in EntrySessions, sheet \in EntrySheets, putFails \in BOOLEAN,
          mode \in {"error", "throws"} : HealthCheck(session, sheet, putFails, mode)
    \/ \E session \in EntrySessions, faults \in FaultSets : GetAppConfig(session, faults)
    \/ \E session \in EntrySessions, email \in {JsNull, JsString(DESIREE)}, faults \in FaultSets,
          sheet \in {SheetNamed("main"), SheetNamed("nocampus")} :
          GetUserInfo(session, email, faults, sheet, "throws")
    \/ \E session \in EntrySessions, faults \in FaultSets : GetSystemInfo(session, faults)
    \/ \E session \in AdminSessions, target \in Targets : UpdateSpreadsheetConfig(session, target, {})
    \/ \E session \in EntrySessions : GetSpreadsheetConfig(session)
    \/ \E session \in EntrySessions, target \in Targets : TestSpreadsheetConnection(session, target)
    \/ \E session \in AdminSessions, target \in Targets : MigrateToNewSchoolYear(session, target, {})
    \/ \E session \in EntrySessions, target \in Targets : EmergencyRollback(session, target, {})

SpecEntry == Init /\ [][NextEntry]_vars

(***************************************************************************)
(* analyzeDataCompatibility applied to the objects testSpreadsheetConnection *)
(* can return: the three failures, and the successes for sheets of up to   *)
(* MaxDataRows data rows and MaxDataColumns columns, built as lines        *)
(* 612-638 build them.                                                     *)
(***************************************************************************)
MaxDataRows == 10001
MaxDataColumns == 51

DataRowCounts == {0, 1, 9, 10, MaxDataRows - 1, MaxDataRows}
DataColumnCounts == {1, 4, 5, MaxDataColumns - 1, MaxDataColumns}

\* a header row of n cells with the campus header at position at, if at is in 1..n
HeadersOf(n, at) == [i \in 1..n |-> IF i = at THEN CAMPUS_COLUMN ELSE "Name"]

ConnectionTests ==
    {AdminFailure(<<"Connection test failed: ", OPEN_FAILED>>),
     AdminFailure(<<"Connection test failed: ", SHEET_NOT_FOUND>>),
     [success |-> FALSE, message |-> <<NO_DATA_FOUND>>, spreadsheetId |-> "empty"]}
    \cup {[success |-> TRUE, message |-> <<"Spreadsheet connection test successful">>,
           spreadsheetId |-> "new",
           dataRows |-> rows, dataColumns |-> Len(HeadersOf(n, at)),
           headers |-> HeadersOf(n, at),
           campusColumnFound |-> CampusFindIndex(HeadersOf(n, at)) >= 0,
           campusColumnIndex |-> CampusFindIndex(HeadersOf(n, at))] :
          rows \in DataRowCounts, n \in DataColumnCounts, at \in {0, 1, 4}}

InitCompat ==
    /\ cache = NoCache
    /\ \E t \in ConnectionTests : resp = [op |-> "testSpreadsheetConnection", arg |-> t]

AnalyzeDataCompatibility ==
    /\ resp.op = "testSpreadsheetConnection"
    /\ resp' = [op |-> "analyzeDataCompatibility", arg |-> resp.arg,
                value |-> analyzeDataCompatibility(getSpreadsheetConfig([throws |-> FALSE,
                                                                          email |-> JsString(LINDA)]),
                                                   resp.arg)]
    /\ UNCHANGED cache

NextCompat == AnalyzeDataCompatibility

SpecCompat == InitCompat /\ [][NextCompat]_vars

(***************************************************************************)
(* Two requests running getUserPermissions at once: each CacheService call *)
(* is atomic, the calls of the two requests interleave freely, and time    *)
(* passes and entries are removed in between.  `resp` holds the two        *)
(* requests in flight.                                                     *)
(***************************************************************************)
Requests == {1, 2}

\* the identities the two requests are made for: they pass validation
RaceIdentities == {LINDA, DESIREE, TEST}

\* a request not yet made
Idle == [email |-> <<>>, pc |-> "idle", value |-> <<>>, path |-> "none", wrote |-> FALSE]

InitRace ==
    /\ cache = NoCache
    /\ resp = [op |-> "race", procs |-> [i \in Requests |-> Idle]]

\* request i is at `pc`
At(i, pc) == resp.op = "race" /\ resp.procs[i].pc = pc

\* request i becomes p
Becomes(i, p) == resp' = [resp EXCEPT !.procs[i] = p]

\* getUserPermissions(email) is entered and the identity passes validation
RaceStart(i, email) ==
    /\ At(i, "idle")
    /\ validateUserEmail(JsString(email))
    /\ Becomes(i, [Idle EXCEPT !.email = email, !.pc = "get"])
    /\ UNCHANGED cache

\* cache.get(cacheKey): a hit returns the parsed record
RaceGet(i) ==
    LET p == resp.procs[i]
        cached == CacheGet(cache, PermissionsKey(p.email))
    IN /\ At(i, "get")
       /\ IF cached # <<>>
          THEN Becomes(i, [p EXCEPT !.pc = "done", !.value = <<JSONParse(cached[1])>>,
                                    !.path = "hit"])
          ELSE Becomes(i, [p EXCEPT !.pc = "lookup", !.path = "miss"])
       /\ UNCHANGED cache

\* loadUserPermissionsFromConfig(email)
RaceLookup(i) ==
    LET p == resp.procs[i] IN
    /\ At(i, "lookup")
    /\ Becomes(i, [p EXCEPT !.pc = "put", !.value = <<loadUserPermissionsFromConfig(p.email)>>])
    /\ UNCHANGED cache

\* cache.put(cacheKey, JSON.stringify(permissions), 300), which may fail, and the
\* return of the record
RacePut(i, fails) ==
    LET p == resp.procs[i]
        put == cachePermissions(cache, PermissionsKey(p.email), p.value[1],
                                IF fails THEN {"perm.put"} ELSE {})
    IN /\ At(i, "put")
       /\ cache' = put.cache
       /\ Becomes(i, [p EXCEPT !.pc = "done", !.wrote = ~fails])

\* both requests are answered
RaceFinish ==
    /\ \A i \in Requests : At(i, "done")
    /\ resp' = [resp EXCEPT !.procs = [i \in Requests |-> Idle]]
    /\ UNCHANGED cache

\* TickSeconds pass while the requests run
RaceTick ==
    /\ resp.op = "race"
    /\ DOMAIN cache # {}
    /\ cache' = CacheAfter(cache, TickSeconds)
    /\ UNCHANGED resp

\* a clearUserCache of another request removes the identity's entry
RaceClear(email) ==
    /\ resp.op = "race"
    /\ PermissionsKey(email) \in DOMAIN cache
    /\ cache' = CacheRemove(cache, PermissionsKey(email))
    /\ UNCHANGED resp

NextRace ==
    \/ \E i \in Requests, email \in RaceIdentities : RaceStart(i, email)
    \/ \E i \in Requests : RaceGet(i)
    \/ \E i \in Requests : RaceLookup(i)
    \/ \E i \in Requests, fails \in BOOLEAN : RacePut(i, fails)
    \/ RaceFinish
    \/ RaceTick
    \/ \E email \in RaceIdentities : RaceClear(email)

SpecRace == InitRace /\ [][NextRace]_vars

(***************************************************************************)
(* What the claims speak of.                                               *)
(***************************************************************************)
IsFilter == resp.op = "filterCaseloadData"
IsGetPermissions == resp.op = "getUserPermissions"

\* the identity the platform reported to the API call in flight
Caller == resp.arg.email.s

\* the Permission Table's answer for an identity
InTable(e) == e \in DOMAIN LEGACY_EMAIL_CAMPUS_MAPPING
TableCampuses(e) == IF InTable(e) THEN LEGACY_EMAIL_CAMPUS_MAPPING[e] ELSE <<>>
TableFullAccess(e) == InTable(e) /\ Len(LEGACY_EMAIL_CAMPUS_MAPPING[e]) >= FULL_ACCESS_CAMPUS_COUNT

Did(step) == Includes(resp.steps, step)

\* what one raw row becomes once the columns are removed and the dates formatted
Derived(header, row) ==
    formatDates(removeColumns(<<header, row>>, COLUMNS_TO_REMOVE), DATE_COLUMNS)[2]

\* the raw rows, of any sheet that has a campus column, whose campus is in `campuses`
AllowedRawRows(campuses) ==
    {pair \in UNION {{<<sh.rows[1], sh.rows[k]>> : k \in 2..Len(sh.rows)} :
                        sh \in {x \in Sheets : x.rows # <<>>}} :
        LET ci == IndexOf(pair[1], CAMPUS_COLUMN)
        IN ci > 0 /\ Includes(campuses, pair[2][ci])}

\* C1: every non-empty grid returned to an identity without full access holds,
\* besides the header row, only rows derived from raw rows whose campus-column
\* value is in that identity's campus set in the Permission Table.
C1_OnlyOwnCampusRows ==
    (IsFilter /\ resp.kind = "return" /\ resp.value # EmptyGrid /\ ~TableFullAccess(Caller))
        => LET grid == JSONParse(resp.value)
           IN \A i \in 2..Len(grid) :
                 \E pair \in AllowedRawRows(TableCampuses(Caller)) :
                    grid[i] = Derived(pair[1], pair[2])

\* a coordinator is served her rows from the processed-data cache
C1_Witness ==
    /\ IsFilter /\ resp.kind = "return" /\ Caller = DESIREE
    /\ Did("data.get:hit")
    /\ Len(JSONParse(resp.value)) >= 2

\* C2 as stated: for every identity not in the Permission Table getPermissions
\* returns the no-access record and getFilteredData returns the empty grid.
C2_Original ==
    /\ (IsGetPermissions /\ resp.arg.t = "string" /\ ~InTable(resp.arg.s))
          => (resp.kind = "return" /\ resp.value.hasAccess = FALSE)
    /\ (IsFilter /\ ~resp.arg.throws /\ ~InTable(Caller)) => resp.value = EmptyGrid

\* C2 amended: for an identity not in the Permission Table getPermissions returns
\* the no-access record when the identity is valid and the cache read succeeds,
\* and raises otherwise; getFilteredData returns the empty grid.
C2_Amended ==
    /\ (IsGetPermissions /\ resp.arg.t = "string" /\ ~InTable(resp.arg.s))
          => IF validateUserEmail(resp.arg) /\ ~Did("cache.get:failed")
             THEN /\ resp.kind = "return"
                  /\ resp.value.hasAccess = FALSE
                  /\ resp.value.isFullAccess = FALSE
                  /\ resp.value.role = "none"
                  /\ resp.value.campuses = <<>>
             ELSE resp.kind = "throw"
    /\ (IsFilter /\ ~resp.arg.throws /\ ~InTable(Caller))
          => (resp.kind = "return" /\ resp.value = EmptyGrid)

\* a valid identity outside the table gets the cached no-access record
C2_Witness ==
    /\ IsGetPermissions /\ resp.arg = JsString(TEST)
    /\ resp.kind = "return" /\ resp.steps = <<"validate", "cache.get">>

\* the steps whose failure reaches filterCaseloadData as an exception
FailedStep ==
    \/ Did("session:failed") \/ Did("cache.get:failed") \/ Did("data.get:failed")
    \/ Did("open:failed") \/ Did("read:failed") \/ Did("process:failed")

NoDataCase ==
    /\ IsFilter /\ ~resp.arg.throws /\ InTable(Caller) /\ ~TableFullAccess(Caller)
    /\ resp.read # "(none)" /\ Did("process") /\ ~Did("caught")
    /\ LET rows == SheetNamed(resp.read).rows
           ci == IndexOf(rows[1], CAMPUS_COLUMN)
       IN \A k \in 2..Len(rows) : ~Includes(TableCampuses(Caller), rows[k][ci])

\* C4: the response is the same empty grid for "no data", "no access" and "error".
C4_SameEmptyGrid ==
    (NoDataCase \/ (IsFilter /\ (Did("denied") \/ Did("invalid") \/ Did("caught"))))
        => resp.value = EmptyGrid

\* the input ends with the required domain suffix
HasDomainSuffix(s) ==
    \E p \in 0..Len(s) :
        /\ p + Len(ALLOWED_DOMAIN) = Len(s)
        /\ \A k \in 1..Len(ALLOWED_DOMAIN) : s[p + k] = ALLOWED_DOMAIN[k]

\* the address format: no whitespace, exactly one "@" with a character before it,
\* and after it a "." with a character on each side
MatchesAddressFormat(s) ==
    \E i \in 1..Len(s), j \in 1..Len(s) :
        /\ s[i] = "@" /\ s[j] = "."
        /\ i >= 2 /\ j >= i + 2 /\ j < Len(s)
        /\ \A k \in 1..Len(s) : s[k] \notin Whitespace /\ (s[k] = "@" => k = i)

\* C5: validateUserEmail returns a boolean for every input and never throws; the
\* answer is true exactly when the input is a non-empty string that ends with
\* "@nisd.net" and matches the address format, and false in every other case.
C5_FailsClosed ==
    resp.op = "validateUserEmail" =>
        /\ resp.kind = "return"
        /\ resp.value \in BOOLEAN
        /\ resp.value = (/\ resp.arg.t = "string"
                         /\ resp.arg.s # <<>>
                         /\ HasDomainSuffix(resp.arg.s)
                         /\ MatchesAddressFormat(resp.arg.s))

\* an input with the right domain that fails the address format is refused
C5_Witness ==
    /\ resp.op = "validateUserEmail" /\ resp.arg.t = "string"
    /\ HasDomainSuffix(resp.arg.s) /\ ~MatchesAddressFormat(resp.arg.s)
    /\ resp.kind = "return" /\ resp.value = FALSE

\* C6: getUserPermissions called with an identity that fails validation throws the
\* invalid-identity error (wrapped by the method's catch) having made no cache
\* read, table lookup or cache write, and the cache is unchanged.
C6_InvalidIdentityFirst ==
    [][(resp'.op = "getUserPermissions" /\ resp.op = "none" /\ ~validateUserEmail(resp'.arg))
          => /\ resp'.kind = "throw"
             /\ resp'.value.originalError = INVALID_EMAIL
             /\ resp'.steps = <<"validate">>
             /\ cache' = cache]_vars

\* an invalid identity is refused while the cache holds entries
C6_Witness ==
    /\ IsGetPermissions /\ resp.arg = JsString(BAD)
    /\ resp.kind = "throw" /\ resp.value.originalError = INVALID_EMAIL
    /\ DOMAIN cache # {}

C8_HasFullAccess ==
    resp.op = "hasFullAccess" =>
        /\ resp.kind = "return"
        /\ resp.value \in BOOLEAN
        /\ resp.value = (/\ validateUserEmail(resp.arg)
                         /\ ~Did("cache.get:failed")
                         /\ TableFullAccess(resp.arg.s))

\* the full-access identity is answered false because the cache read failed
C8_Witness ==
    /\ resp.op = "hasFullAccess" /\ resp.arg = JsString(LINDA)
    /\ Did("cache.get:failed") /\ Did("caught")
    /\ resp.kind = "return" /\ resp.value = FALSE

\* C9: when the cache write in getUserPermissions fails, the call still returns
\* the record resolved from the Permission Table, throws nothing, and the cache
\* holds no permissions entry for that identity.
C9_WriteFailureSwallowed ==
    (IsGetPermissions /\ Did("cache.put:failed")) =>
        /\ resp.kind = "return"
        /\ resp.value.email = resp.arg.s
        /\ resp.value.hasAccess = InTable(resp.arg.s)
        /\ resp.value.campuses = TableCampuses(resp.arg.s)
        /\ resp.value.isFullAccess = TableFullAccess(resp.arg.s)
        /\ PermissionsKey(resp.arg.s) \notin DOMAIN cache

\* a coordinator's record is returned although it could not be cached
C9_Witness ==
    /\ IsGetPermissions /\ resp.arg = JsString(DESIREE) /\ Did("cache.put:failed")
    /\ resp.kind = "return" /\ resp.value.hasAccess = TRUE
    /\ PermissionsKey(DESIREE) \notin DOMAIN cache

IsClear == resp.op = "clearUserCache"

\* clearUserCache answered with the success response
ClearSucceeded == IsClear /\ resp.kind = "return" /\ resp.value.success = TRUE

Actor(r) == IF r.op \in {"filterCaseloadData", "clearUserCache"} THEN r.arg.email.s ELSE r.arg.s

\* the identities that occur: the callers and the Permission Table
Identities == Callers \cup DOMAIN LEGACY_EMAIL_CAMPUS_MAPPING \cup {NOLOCAL}

\* C11: a request made for identity A leaves every cache entry other than A's
\* permissions entry and A's data entry as it was, serves A from the cache only
\* what A's own keys held, and the keys of distinct identities are distinct (no
\* permissions key equals a data key).
C11_CacheIsolation ==
    [][(resp.op = "none" /\ resp'.op \in {"getUserPermissions", "hasFullAccess",
                                           "filterCaseloadData", "clearUserCache"}) =>
          LET A == Actor(resp') IN
          /\ \A B \in Identities \ {A} :
                /\ PermissionsKey(B) # PermissionsKey(A)
                /\ DataKey(B) # DataKey(A)
                /\ PermissionsKey(A) # DataKey(B)
                /\ DataKey(A) # PermissionsKey(B)
          /\ PermissionsKey(A) # DataKey(A)
          /\ \A k \in (DOMAIN cache \cup DOMAIN cache') \ {PermissionsKey(A), DataKey(A)} :
                k \in DOMAIN cache /\ k \in DOMAIN cache' /\ cache'[k] = cache[k]
          /\ Includes(resp'.steps, "data.get:hit") =>
                resp'.value = cache[DataKey(A)].value
          /\ (resp'.op = "getUserPermissions" /\ resp'.steps = <<"validate", "cache.get">>) =>
                resp'.value = JSONParse(cache[PermissionsKey(A)].value)]_<<cache, resp.op>>

\* one identity clears her cache while another identity's two entries stay
C11_Witness ==
    /\ ClearSucceeded /\ Caller = DESIREE /\ Did("perm.remove") /\ Did("data.remove")
    /\ PermissionsKey(LINDA) \in DOMAIN cache
    /\ DataKey(LINDA) \in DOMAIN cache

IsPermissionsKey(k) == \E e \in Identities : k = PermissionsKey(e)

\* the configured time to live of a key, by its purpose tag
ConfiguredTtl(k) == IF IsPermissionsKey(k) THEN 300 ELSE IF k = HEALTH_KEY THEN 1 ELSE 120

\* seconds since the put that stored the entry under k
Elapsed(c, k) == ConfiguredTtl(k) - c[k].left

IsHealthCheck == resp.op = "healthCheck"

\* C13: healthCheck never throws and runs each of its four probes whatever the
\* earlier ones did; each test flag tells whether its probe succeeded, and the
\* status is "healthy" iff all four succeeded and "degraded" otherwise.
C13_HealthCheck ==
    IsHealthCheck =>
        LET sheet == SheetNamed(resp.arg.sheet)
            sheetOk == sheet.status # "unavailable"
            userOk == ~resp.arg.throws /\ resp.arg.email.s # <<>>
            cacheOk == ~resp.arg.putFails
            dataOk == /\ sheet.status = "ok" /\ sheet.rows # <<>>
                      /\ \E j \in 1..Len(sheet.rows[1]) : sheet.rows[1][j] = CAMPUS_COLUMN
        IN
        /\ resp.kind = "return"
        /\ Len(resp.steps) = 4
        /\ resp.steps[1] \in {"probe.sheet", "probe.sheet:failed"}
        /\ resp.steps[2] \in {"probe.user", "probe.user:failed"}
        /\ resp.steps[3] \in {"probe.cache", "probe.cache:failed"}
        /\ resp.steps[4] \in {"probe.data", "probe.data:failed"}
        /\ resp.value.tests = [spreadsheetAccess |-> sheetOk, userService |-> userOk,
                               cacheService |-> cacheOk, dataProcessing |-> dataOk]
        /\ resp.value.status = IF sheetOk /\ userOk /\ cacheOk /\ dataOk
                               THEN "healthy" ELSE "degraded"

\* the first probe fails and the three after it still run, one of them succeeding
C13_Witness ==
    /\ IsHealthCheck /\ resp.steps[1] = "probe.sheet:failed"
    /\ resp.steps[2] = "probe.user" /\ resp.steps[3] = "probe.cache"
    /\ resp.steps[4] = "probe.data:failed"
    /\ resp.value.tests.userService /\ resp.value.tests.cacheService
    /\ resp.value.status = "degraded"
    /\ HEALTH_KEY \in DOMAIN cache

(***************************************************************************)
(* The pipeline's output, said without the pipeline.                       *)
(***************************************************************************)
IsProcess == resp.op = "process"

\* the n-th smallest element of a set of numbers
NthOf(S, n) == CHOOSE i \in S : Cardinality({j \in S : j <= i}) = n

\* the positions of `row` whose 0-based index is not in `columns`
KeptIndexes(row, columns) == {i \in 1..Len(row) : ~Includes(columns, i - 1)}

\* the cells of `row` whose 0-based index is not in `columns`, in their order
Without(row, columns) ==
    [n \in 1..Cardinality(KeptIndexes(row, columns)) |-> row[NthOf(KeptIndexes(row, columns), n)]]

\* a data row as displayed: date columns in the display pattern, then the removal
Shown(header, row, columns) ==
    Without([i \in 1..Len(row) |->
                IF i <= Len(header) /\ Includes(DATE_COLUMNS, header[i])
                THEN FormatDate(row[i]) ELSE row[i]],
            columns)

\* the header cell positions that are exactly the campus column name
CampusCells(header, campusColumn) == {j \in 1..Len(header) : header[j] = campusColumn}

\* the positions in the raw table of the header and of the data rows whose campus
\* value is in `campuses`
AllowedPositions(rawTable, campusColumn, campuses) ==
    {1} \cup {k \in 2..Len(rawTable) :
                \E j \in CampusCells(rawTable[1], campusColumn) :
                    /\ \A j2 \in CampusCells(rawTable[1], campusColumn) : j <= j2
                    /\ Includes(campuses, rawTable[k][j])}

\* C14: for every raw table and every allowed-campus set without full access,
\* the output is the header row followed by exactly the data rows whose campus
\* value is in the allowed set, in their original order (each row as displayed:
\* configured columns removed, dates formatted).
C14_RowFiltering ==
    (IsProcess /\ resp.kind = "return" /\ ~resp.arg.permissions.isFullAccess)
        => LET a == resp.arg
               allowed == AllowedPositions(a.rawTable, a.campusColumn, a.permissions.campuses)
           IN /\ Len(resp.value) = Cardinality(allowed)
              /\ resp.value[1] = Without(a.rawTable[1], a.columnsToRemove)
              /\ \A n \in 2..Len(resp.value) :
                    resp.value[n] = Shown(a.rawTable[1], a.rawTable[NthOf(allowed, n)],
                                          a.columnsToRemove)

\* the scenario of the spec: Site1 allowed, column 2 removed, B/Site2 dropped
C14_Witness ==
    /\ IsProcess /\ resp.kind = "return"
    /\ resp.arg.rawTable = << <<"Name", "Campus", "X">>, <<"A", "Site1", "1">>, <<"B", "Site2", "2">> >>
    /\ resp.arg.permissions.campuses = <<"Site1">> /\ ~resp.arg.permissions.isFullAccess
    /\ resp.arg.columnsToRemove = <<2>>
    /\ resp.value = << <<"Name", "Campus">>, <<"A", "Site1">> >>

\* every raw row is in the output, as displayed, at its own position
EveryRowKept(rawTable, columns, grid) ==
    /\ Len(grid) = Len(rawTable)
    /\ grid[1] = Without(rawTable[1], columns)
    /\ \A n \in 2..Len(grid) : grid[n] = Shown(rawTable[1], rawTable[n], columns)

\* C15: an identity whose campus list has at least FULL_ACCESS_CAMPUS_COUNT
\* entries gets isFullAccess, and for a full-access record the pipeline filters
\* no row: the output has as many rows as the input, the rows whose campus is
\* not in the identity's list included.
C15_FullAccessBypass ==
    /\ \A e \in DOMAIN LEGACY_EMAIL_CAMPUS_MAPPING :
          Len(LEGACY_EMAIL_CAMPUS_MAPPING[e]) >= FULL_ACCESS_CAMPUS_COUNT
              => loadUserPermissionsFromConfig(e).isFullAccess
    /\ (IsProcess /\ resp.kind = "return" /\ resp.arg.permissions.isFullAccess)
          => EveryRowKept(resp.arg.rawTable, resp.arg.columnsToRemove, resp.value)
    /\ (IsFilter /\ TableFullAccess(Caller) /\ Did("process"))
          => /\ resp.kind = "return"
             /\ EveryRowKept(SheetNamed(resp.read).rows, COLUMNS_TO_REMOVE, JSONParse(resp.value))

\* the 17-campus identity is served the row of a campus outside her list
C15_Witness ==
    /\ IsFilter /\ Caller = LINDA /\ Did("process") /\ resp.read = "main"
    /\ ~Includes(LEGACY_EMAIL_CAMPUS_MAPPING[LINDA], RowDee[3])
    /\ \E n \in 2..Len(JSONParse(resp.value)) : JSONParse(resp.value)[n][1] = RowDee[1]
    /\ Len(JSONParse(resp.value)) = 5

IsRemoveColumns == resp.op = "removeColumns"

\* distinct indexes, each one of a cell of `row`
DistinctInRange(row, columnIndexes) ==
    /\ \A i \in 1..Len(columnIndexes) : columnIndexes[i] \in 0..(Len(row) - 1)
    /\ \A i, j \in 1..Len(columnIndexes) : i # j => columnIndexes[i] # columnIndexes[j]

\* C16: for every row and every list of distinct in-range column indexes, in any
\* order, removeColumns yields exactly the cells whose original index is not in
\* the list, in their original relative order.
C16_IndexStableRemoval ==
    (IsRemoveColumns /\ DistinctInRange(resp.arg.row, resp.arg.columnIndexes))
        => /\ resp.kind = "return"
           /\ resp.value = <<Without(resp.arg.row, resp.arg.columnIndexes)>>
           /\ Len(resp.value[1]) = Len(resp.arg.row) - Len(resp.arg.columnIndexes)

\* the configured six indexes, given out of order, leave columns 0-6, 10 and 11
C16_Witness ==
    /\ IsRemoveColumns
    /\ resp.arg.row = Header15 /\ resp.arg.columnIndexes = <<14, 7, 12, 9, 13, 8>>
    /\ resp.value = <<SubSeq(Header15, 1, 7) \o SubSeq(Header15, 11, 12)>>

\* the grid a pipeline run gave, the raw header it was given and the removal
\* list it was configured with
PipelineRan ==
    \/ IsProcess /\ resp.kind = "return"
    \/ IsFilter /\ Did("process")
RawHeader == IF IsProcess THEN resp.arg.rawTable[1] ELSE SheetNamed(resp.read).rows[1]
RemovedIndexes == IF IsProcess THEN resp.arg.columnsToRemove ELSE COLUMNS_TO_REMOVE
ProcessedTable == IF IsProcess THEN resp.value ELSE JSONParse(resp.value)

\* C17 as stated: every row of every output of the pipeline, header included,
\* has as many columns as the raw header has, minus the number of configured
\* removed indexes.
C17_Original ==
    PipelineRan
        => \A n \in 1..Len(ProcessedTable) :
              Len(ProcessedTable[n]) = Len(RawHeader) - Len(RemovedIndexes)

\* C17 amended: every row of every output of the pipeline, header included, has
\* as many columns as the raw header has, minus the number of configured removed
\* indexes that are less than the raw header's column count.
C17_Amended ==
    PipelineRan
        => \A n \in 1..Len(ProcessedTable) :
              Len(ProcessedTable[n]) =
                  Len(RawHeader) - Cardinality({i \in 1..Len(RemovedIndexes) :
                                                  RemovedIndexes[i] < Len(RawHeader)})

\* a 3-column table with indexes 2 and 7 configured: one column goes, two stay
C17_Witness ==
    /\ IsProcess /\ resp.kind = "return"
    /\ Len(resp.arg.rawTable) = 3 /\ Len(resp.value) = 3
    /\ resp.arg.columnsToRemove = <<2, 7>>
    /\ \A n \in 1..3 : Len(resp.value[n]) = 2

IsAdminCall ==
    resp.op \in {"updateSpreadsheetConfig", "getSpreadsheetConfig", "testSpreadsheetConnection"}

\* the platform reported an identity that is an administrator under neither
\* notion: not one of the two named addresses, not a full-access table entry
NotAdministrator ==
    /\ ~resp.arg.throws
    /\ ~IsNamedAdministrator(resp.arg.email.s)
    /\ ~TableFullAccess(resp.arg.email.s)

\* the messages that only say the caller is not allowed
Denials == {<<UNAUTHORIZED_UPDATE>>, <<UNAUTHORIZED_MIGRATION>>, <<ACCESS_DENIED>>}

\* C19: updateSpreadsheetConfig, getSpreadsheetConfig and
\* testSpreadsheetConnection are restricted to administrators: a caller who is
\* not an administrator gets neither their result (configuration, headers,
\* sample rows) nor a raw error message, only a denial.
C19_AdminOnly ==
    (IsAdminCall /\ NotAdministrator)
        => /\ resp.kind = "return"
           /\ ~resp.value.success
           /\ resp.value.message \in Denials

\* the entry points of the claim
EntryPoints ==
    {"doGet", "filterCaseloadData", "clearUserCache", "healthCheck", "getAppConfig",
     "updateSpreadsheetConfig", "getSpreadsheetConfig", "testSpreadsheetConnection",
     "migrateToNewSchoolYear", "emergencyRollback"}

\* C20: no entry point lets an exception escape to its caller, the platform
\* failing to supply the caller's identity included.
C20_NoEscape ==
    resp.op \in EntryPoints => resp.kind = "return"

IsAdminOnly == resp.op \in {"getAppConfig", "getUserInfo", "getSystemInfo"}

\* the response carries configuration, user or system data
HasPayload ==
    DOMAIN resp.value \cap {"spreadsheet", "campuses", "version", "user", "dataStatistics",
                            "timezone", "locale"} # {}

AccessDenied == [error |-> ACCESS_DENIED]

\* C21 as stated: getAppConfig, getUserInfo and getSystemInfo return their
\* payload only to a full-access identity, and to every other caller the
\* 'Access denied' error object.
C21_Original ==
    IsAdminOnly
        => /\ HasPayload => (~resp.arg.throws /\ TableFullAccess(Caller))
           /\ (resp.arg.throws \/ ~TableFullAccess(Caller) \/ Did("denied"))
                 => resp.value = AccessDenied

\* C21 amended: the three functions return their payload only when
\* hasFullAccess of the calling identity is true; a caller whose identity the
\* platform supplies and who lacks full access, one for whom permission
\* resolution fails included, gets the 'Access denied' error object; when the
\* platform does not supply the identity the answer is the normalized error
\* response; in neither case is there any configuration data.
C21_Amended ==
    IsAdminOnly
        => /\ resp.kind = "return"
           /\ HasPayload => (~resp.arg.throws /\ TableFullAccess(Caller) /\ Did("success"))
           /\ (~resp.arg.throws /\ (~TableFullAccess(Caller) \/ Did("denied")))
                 => resp.value = AccessDenied
           /\ (~resp.arg.throws /\ TableFullAccess(Caller) /\ ~HasPayload)
                 => (Did("denied") /\ Did("caught")) \/ Did("statistics:failed")
           /\ resp.arg.throws
                 => /\ resp.value = handleException(getCurrentUserEmail(resp.arg).value, resp.op)
                    /\ ~HasPayload

\* the 17-campus identity is denied when her permissions cannot be read
C21_Witness ==
    /\ IsAdminOnly /\ ~resp.arg.throws /\ Caller = LINDA
    /\ Did("denied") /\ Did("caught")
    /\ resp.value = AccessDenied

\* a call that repoints the data source went through
Repointed ==
    /\ resp.op \in {"updateSpreadsheetConfig", "emergencyRollback", "migrateToNewSchoolYear"}
    /\ resp.kind = "return" /\ resp.value.success

\* C22: after updateSpreadsheetConfig has validated a new spreadsheet, and after
\* a successful emergencyRollback or migrateToNewSchoolYear, no identity's
\* cached permissions or cached processed data remains.
C22_AllCachesCleared ==
    Repointed
        => \A e \in Identities :
              PermissionsKey(e) \notin DOMAIN cache /\ DataKey(e) \notin DOMAIN cache

\* the record the Permission Table yields for an identity
TableRecord(e) ==
    [email |-> e, campuses |-> TableCampuses(e), hasAccess |-> InTable(e),
     isFullAccess |-> TableFullAccess(e),
     role |-> IF ~InTable(e) THEN "none"
              ELSE IF TableFullAccess(e) THEN "administrator" ELSE "coordinator"]

C24_RaceIsBenign ==
    resp.op = "race"
        => /\ \A i \in Requests :
                 resp.procs[i].value # <<>> => resp.procs[i].value[1] = TableRecord(resp.procs[i].email)
           /\ \A i, j \in Requests :
                 (At(i, "done") /\ At(j, "done") /\ resp.procs[i].email = resp.procs[j].email)
                     => resp.procs[i].value = resp.procs[j].value
           /\ \A e \in RaceIdentities :
                 PermissionsKey(e) \in DOMAIN cache
                     => JSONParse(cache[PermissionsKey(e)].value) = TableRecord(e)

\* no single-flight: both requests for one identity missed, resolved and wrote
C24_Witness ==
    /\ resp.op = "race"
    /\ \A i \in Requests :
          /\ At(i, "done") /\ resp.procs[i].email = LINDA
          /\ resp.procs[i].path = "miss" /\ resp.procs[i].wrote
    /\ JSONParse(cache[PermissionsKey(LINDA)].value) = TableRecord(LINDA)

\* the spreadsheet a repointing call was given
TargetOf(name) == CHOOSE t \in Targets : t.name = name

Weights == {30, 25, 20, 15, 10}

RECURSIVE SumOf(_)
SumOf(S) == IF S = {} THEN 0 ELSE LET x == CHOOSE y \in S : TRUE IN x + SumOf(S \ {x})

\* C26: for every connection-test result, the score analyzeDataCompatibility
\* returns is a sum of weights among {30, 25, 20, 15, 10}, so it lies between 0
\* and maxScore = 100; the level is EXCELLENT iff score >= 90, GOOD iff
\* 70 <= score < 90, FAIR iff 50 <= score < 70, POOR iff score < 50; and the
\* score is 100 exactly when no warning is recorded.
C26_ScoreAndLevel ==
    resp.op = "analyzeDataCompatibility"
        => LET r == resp.value IN
           /\ \E earned \in SUBSET Weights : r.score = SumOf(earned)
           /\ r.maxScore = 100 /\ 0 <= r.score /\ r.score <= r.maxScore
           /\ r.level \in {"EXCELLENT", "GOOD", "FAIR", "POOR"}
           /\ r.level = "EXCELLENT" <=> r.score >= 90
           /\ r.level = "GOOD" <=> (70 <= r.score /\ r.score < 90)
           /\ r.level = "FAIR" <=> (50 <= r.score /\ r.score < 70)
           /\ r.level = "POOR" <=> r.score < 50
           /\ r.score = 100 <=> r.warnings = <<>>

\* a sheet with too many columns scores 85, GOOD, with exactly one warning
C26_Witness ==
    /\ resp.op = "analyzeDataCompatibility"
    /\ resp.arg.success /\ resp.arg.dataColumns > 50
    /\ resp.value.score = 85 /\ resp.value.level = "GOOD"
    /\ Len(resp.value.warnings) = 1

\* a cache key under prefix + 'permissions_', and the identity it is for
PermissionsPrefix == PermissionsKey(<<>>)
HasPermissionsPrefix(k) ==
    Len(k) >= Len(PermissionsPrefix) /\ SubSeq(k, 1, Len(PermissionsPrefix)) = PermissionsPrefix
IdentityOf(k) == SubSeq(k, Len(PermissionsPrefix) + 1, Len(k))

\* C27: in every reachable state, an entry present under
\* prefix + 'permissions_' + identity is the serialization of the record the
\* Permission Table yields for that identity (campuses, hasAccess, isFullAccess,
\* role), and only identities that pass validation have such an entry.
C27_PermissionsCacheInvariant ==
    \A k \in DOMAIN cache :
        HasPermissionsPrefix(k)
            => /\ cache[k].value = JSONStringify(TableRecord(IdentityOf(k)))
               /\ validateUserEmail(JsString(IdentityOf(k)))

\* the one-campus identity's record is cached, and a request for an identity of
\* another domain has been refused and left no entry
C27_Witness ==
    /\ PermissionsKey(DESIREE) \in DOMAIN cache
    /\ cache[PermissionsKey(DESIREE)].value = JSONStringify(TableRecord(DESIREE))
    /\ IsGetPermissions /\ resp.arg = JsString(BAD) /\ resp.kind = "throw"
    /\ PermissionsKey(BAD) \notin DOMAIN cache

C29_AdministratorNotionsAgree ==
    (resp.op \in {"updateSpreadsheetConfig", "migrateToNewSchoolYear"} /\ ~resp.arg.throws)
        => /\ resp.kind = "return"
           /\ Did("authorized") <=> TableRecord(Caller).isFullAccess

\* what the Data Transform Pipeline does with the table a connection test read
PipelineOn(rows) ==
    pipeline(rows, TableRecord(LINDA), CAMPUS_COLUMN, COLUMNS_TO_REMOVE, DATE_COLUMNS)

\* C30: validation agrees with the pipeline: whenever testSpreadsheetConnection
\* reports campusColumnFound = true, the Data Transform Pipeline locates the
\* campus column in that same table (it does not raise the missing-campus-column
\* error), and the reported campusColumnIndex is the column the pipeline filters
\* on.
C30_ValidationAgreesWithPipeline ==
    (resp.op = "testSpreadsheetConnection" /\ resp.kind = "return"
        /\ resp.value.success /\ resp.value.campusColumnFound)
        => LET rows == TargetOf(resp.arg.target).rows IN
           /\ rows[1] = resp.value.headers
           /\ PipelineOn(rows).kind = "return"
           /\ IndexOf(rows[1], CAMPUS_COLUMN) - 1 = resp.value.campusColumnIndex

=============================================================================
